---- MODULE Spec2Model ----
(***************************************************************************)
(* One werewolf room: its lobby, the phase machine of GameEngineService,   *)
(* the Redis "phase_timers" queue with its dispatcher, the local backup    *)
(* timers, night actions, day votes and kills.                             *)
(*                                                                         *)
(* Store writes made through the shared client (this.prisma) are visible   *)
(* at once; writes made through the transaction client (tx) of             *)
(* transitionToPhase are visible when its callback returns, and are lost   *)
(* when it throws.  A call of transitionToPhase is modelled in three       *)
(* steps, cut at awaits of the code: the call is made, it clears the       *)
(* timers and reads the room, it runs the rest of its body.  All calls go  *)
(* through one GameEngineService, so one map of local timers.              *)
(***************************************************************************)
EXTENDS Integers, Sequences, FiniteSets, TLC

\* ------------------------------------------------------------ bounds
MaxTransitions == 5  \* transitionToPhase calls made
MaxCalls == 2        \* transitionToPhase calls in flight at one time
MaxFaults == 1       \* store errors and process restarts
MaxLeaves == 1       \* leaveGame calls
MaxStarts == 2       \* game:start requests
MaxSubmits == 2      \* performNightAction calls in flight at one time
MaxJoins == 2        \* game:join requests in flight at one time
MaxGrace == 2        \* pending reconnection timeouts of one player

\* ------------------------------------------------------------ constants
minPlayers == 5      \* createGame default, GAME_CONFIG.players.min
maxPlayers == 15     \* createGame default, GAME_CONFIG.players.max

\* The users who join the room in the lobby; one more user exists for the rooms
\* that start with six players.
Joiners == 1..minPlayers
Users == 1..(minPlayers + 1)
NoOne == 0

\* Inputs of the environment, drawn from small sets.
NightPerformers == {1}
NightTargets == {1, 2}
VoteTargets == {2}
Leavers == {1, 3}

TimedPhases == {"ROLE_ASSIGNMENT", "NIGHT_PHASE", "DAY_DISCUSSION", "DAY_VOTING"}

\* Role pool of assignRoles for five players, after shuffling.
Shuffles ==
  { <<"WEREWOLF", "VILLAGER", "SEER", "VILLAGER", "VILLAGER">> }

VARIABLES
  room,         \* the Game row: state, phase, dayNumber, winningTeam, hostId
  players,      \* userId -> Player row (present = the row exists)
  actions,      \* GameAction rows
  events,       \* death events, in the order they were appended
  redisTimers,  \* members of the sorted set "phase_timers"
  phaseTimers,  \* this.phaseTimers.get(gameId): the local timer the map holds
  strayTimers,  \* pending local timeouts the map no longer refers to
  calls,        \* transitionToPhase calls in flight
  dispatcher,   \* the setInterval of initializeTimerProcessor is running
  counters,     \* how often the bounded operations have happened
  abilities,    \* Ability rows
  submits,      \* performNightAction calls in flight
  published,    \* what the last transition or night-action call that returned
                \* has sent to clients: events through pubsub, or the "error"
                \* a socket handler emits to its caller
  joins,        \* game:join requests in flight
  cache,        \* the snapshot stored under the Redis key "game:<id>"
  sockets,      \* the users whose socket is in the Socket.IO room "game:<id>"
  inbox,        \* what the sockets received from the last emit: who got which event
  graceTimers   \* userId -> the pending 60-second timeouts of handlePlayerDisconnect

vars == <<room, players, actions, events, redisTimers, phaseTimers,
          strayTimers, calls, dispatcher, counters, abilities, submits, published,
          joins, cache, sockets, inbox, graceTimers>>

\* What the phase machine and the lobby leave alone.
nightVars == <<abilities, submits, published>>

\* What only the socket handlers and getGameState touch.
sessionVars == <<joins, cache, sockets, inbox>>

NoTimer == [phase |-> "NONE", due |-> FALSE]
Idle == [pc |-> "idle", src |-> "none", next |-> "NONE",
         snapPhase |-> "NONE", snapDay |-> 0, timerPhase |-> "NONE"]
AllVoted == [kind |-> "all_voted", phase |-> "NONE", due |-> TRUE]

\* A performNightAction call: pc is "checked" between its checks and its writes.
NoSubmit == [pc |-> "idle", performer |-> NoOne, action |-> "none", target |-> NoOne,
             metadata |-> <<>>, day |-> 0]
SubmitIds == 1..MaxSubmits

\* No reconnection timeout is pending.
NoGrace == [u \in Users |-> 0]

\* A game:join request: pc is "read" once joinGame has read the room and
\* "joined" once joinGame has returned.
NoJoin == [pc |-> "idle", user |-> NoOne, position |-> 0]
JoinIds == 1..MaxJoins

\* A GameStateData as far as roles go: roles[p] is the role field of player p
\* (Hidden when undefined or when p is not in players[]), myRoleOf is the
\* requester whose role myRole holds.
Hidden == "hidden"
NoRoles == [u \in Users |-> Hidden]
NoSnapshot == [roles |-> NoRoles, myRoleOf |-> NoOne]

CallIds == 1..MaxCalls
Busy == {c \in CallIds : calls[c].pc # "idle"}
Quiet == Busy = {}

\* ------------------------------------------------------------ pure helpers
getNextPhase(p) ==
  CASE p = "ROLE_ASSIGNMENT" -> "NIGHT_PHASE"
    [] p = "NIGHT_PHASE" -> "DAY_DISCUSSION"
    [] p = "DAY_DISCUSSION" -> "DAY_VOTING"
    [] p = "DAY_VOTING" -> "NIGHT_PHASE"
    [] OTHER -> "GAME_END"

getStateForPhase(p) ==
  CASE p = "LOBBY" -> "WAITING"
    [] p = "ROLE_ASSIGNMENT" -> "STARTING"
    [] p = "NIGHT_PHASE" -> "NIGHT"
    [] p = "DAY_DISCUSSION" -> "DAY"
    [] p = "DAY_VOTING" -> "VOTING"
    [] OTHER -> "ENDED"

\* 0 stands for "no timer": the durations themselves are abstracted to "timed".
getPhaseDuration(p) == IF p \in TimedPhases THEN 1 ELSE 0

getTeamForRole(r) ==
  IF r \in {"WEREWOLF", "BLACK_WOLF", "WOLF_RIDING_HOOD"} THEN "WEREWOLVES"
  ELSE IF r \in {"WHITE_WOLF", "MERCENARY"} THEN "SOLO"
  ELSE "VILLAGERS"

Present(pl) == {u \in Users : pl[u].present}
Alive(pl) == {u \in Users : pl[u].present /\ pl[u].state = "ALIVE"}

getNextAvailablePosition(pl) ==
  CHOOSE i \in 1..maxPlayers :
    /\ \A u \in Present(pl) : pl[u].position # i
    /\ \A j \in 1..(i - 1) : \E u \in Present(pl) : pl[u].position = j

NoPlayer == [present |-> FALSE, position |-> 0, state |-> "ALIVE",
             role |-> "VILLAGER", diedAt |-> FALSE, linkedTo |-> NoOne]

\* ------------------------------------------------------------ deaths
isPlayerProtected(pl, p, cause) ==
  LET aliveWith(r) == \E q \in Alive(pl) : pl[q].role = r IN
  IF pl[p].role = "RED_RIDING_HOOD" /\ cause = "werewolf_attack"
    THEN aliveWith("HUNTER")
  ELSE IF pl[p].role = "BLUE_RIDING_HOOD" /\ cause = "werewolf_attack"
    THEN aliveWith("VILLAGER")
  ELSE IF pl[p].role = "WOLF_RIDING_HOOD" /\ cause = "voted_out"
    THEN aliveWith("BLACK_WOLF")
  ELSE FALSE

\* killPlayer as it would be without the check of the player's state: the
\* player is marked DEAD and a death event is appended whatever the state was.
killPlayerAnyState(st, p, cause, day) ==
  [pl |-> [st.pl EXCEPT ![p].state = "DEAD", ![p].diedAt = TRUE],
   ev |-> Append(st.ev, [player |-> p, cause |-> cause, day |-> day])]

\* killPlayer with handleDeathTriggers.  st = [pl |-> players, ev |-> events].
\* The hunter and protection-loss triggers only publish; the heir trigger
\* needs an heir_target ability, which no player of this room has.  The
\* Plunderer's new role comes without its abilities here: the players who
\* die first in these rooms have roles that initializeAbilities returns
\* early for.
RECURSIVE killPlayer(_, _, _, _)
killPlayer(st, p, cause, day) ==
  IF ~st.pl[p].present \/ st.pl[p].state # "ALIVE" THEN st
  ELSE
    LET dead == st.pl[p]
        s1 == [pl |-> [st.pl EXCEPT ![p].state = "DEAD", ![p].diedAt = TRUE],
               ev |-> Append(st.ev, [player |-> p, cause |-> cause, day |-> day])]
        s2 == IF dead.linkedTo # NoOne /\ dead.linkedTo \in Alive(s1.pl)
                THEN killPlayer(s1, dead.linkedTo, "grief", day)
                ELSE s1
        linked == {q \in Alive(s2.pl) : s2.pl[q].linkedTo = p}
        s3 == IF linked # {}
                THEN killPlayer(s2, CHOOSE q \in linked : \A r \in linked : q <= r,
                                "grief", day)
                ELSE s2
        deathCount == Cardinality({q \in Present(s3.pl) : s3.pl[q].state = "DEAD"})
        plunderers == {q \in Alive(s3.pl) : s3.pl[q].role = "PLUNDERER"}
    IN IF deathCount = 1 /\ plunderers # {}
         THEN [s3 EXCEPT !.pl[CHOOSE q \in plunderers : \A r \in plunderers : q <= r].role
                            = dead.role]
         ELSE s3

\* ------------------------------------------------------------ night resolution
NightActionsOf(acts, day) ==
  {a \in acts : a.phase = "NIGHT_PHASE" /\ a.day = day}

WolfVotes(acts, day) ==
  {a \in NightActionsOf(acts, day) : a.actionType = "WEREWOLF_VOTE" /\ a.target # NoOne}

WolfCount(acts, day, t) == Cardinality({a \in WolfVotes(acts, day) : a.target = t})

\* The targets with the most WEREWOLF_VOTEs: the code keeps the first of them in
\* the order the store returns the rows, which nothing fixes.
WolfTop(acts, day) ==
  {t \in Users : /\ WolfCount(acts, day, t) > 0
                 /\ \A u \in Users : WolfCount(acts, day, u) <= WolfCount(acts, day, t)}

\* GameAction.metadata when the submission carried none.
NoMeta == <<>>

\* processAction, GUARD_PROTECT: the targets put in protectedPlayers.
GuardProtected(acts, day) ==
  {a.target : a \in {b \in NightActionsOf(acts, day) :
                       b.actionType = "GUARD_PROTECT" /\ b.target # NoOne}}

CupidLinks(acts, day) ==
  {a \in NightActionsOf(acts, day) :
     a.actionType = "CUPID_LINK" /\ a.metadata # NoMeta}

\* processAction, CUPID_LINK: two updates, one after the other.
linkPlayers(pl, player1Id, player2Id) ==
  LET first == [pl EXCEPT ![player1Id].linkedTo = player2Id]
  IN [first EXCEPT ![player2Id].linkedTo = player1Id]

\* The CUPID_LINK rows of the night, applied one after the other.  The rows come
\* in the order of createdAt; the rooms here have one player who submits
\* CUPID_LINK, so a night has at most one such row.
RECURSIVE applyCupidLinks(_, _)
applyCupidLinks(pl, rows) ==
  IF rows = {} THEN pl
  ELSE LET a == CHOOSE b \in rows : \A c \in rows : b.performer <= c.performer
       IN applyCupidLinks(linkPlayers(pl, a.metadata[1], a.metadata[2]), rows \ {a})

BecameLover(rows) ==
  UNION {{[event |-> "became_lover", player |-> a.metadata[1], action |-> "none"],
          [event |-> "became_lover", player |-> a.metadata[2], action |-> "none"]} :
           a \in rows}

PlayerSaved == [event |-> "player_saved", player |-> NoOne, action |-> "none"]

ConvertRows(acts, day) ==
  {a \in NightActionsOf(acts, day) :
     a.actionType = "BLACK_WOLF_CONVERT" /\ a.target # NoOne}

\* The conversion as it would be without the lookup in the pending deaths: every
\* BLACK_WOLF_CONVERT row converts its target.
convertAnyTarget(a, t) == TRUE

\* processAction, BLACK_WOLF_CONVERT: the find over context.deaths.  The only
\* death pending with cause werewolf_attack is that of the pack's target t.
werewolfKill(a, t) == a.target = t

\* The players a BLACK_WOLF_CONVERT row of the night converts.
Converted(acts, day, t) ==
  {a.target : a \in {b \in ConvertRows(acts, day) : werewolfKill(b, t)}}

RoleChanged(ps) ==
  {[event |-> "role_changed", player |-> p, action |-> "none"] : p \in ps}

PoisonRows(acts, day) ==
  {a \in NightActionsOf(acts, day) :
     a.actionType = "WITCH_POISON" /\ a.target # NoOne}

\* The targets of the rows, each once, in the order of the rows; the rows of
\* one action type are taken in the order of their performers.
RECURSIVE TargetsInOrder(_, _)
TargetsInOrder(rows, seen) ==
  IF rows = {} THEN <<>>
  ELSE LET a == CHOOSE b \in rows : \A c \in rows : b.performer <= c.performer
       IN IF a.target \in seen THEN TargetsInOrder(rows \ {a}, seen)
          ELSE <<a.target>> \o TargetsInOrder(rows \ {a}, seen \cup {a.target})

\* The pending deaths as they would be with the poisoned players ahead of the
\* pack's target.
poisonFirst(acts, day, t, conv) ==
  LET poisoned == TargetsInOrder(PoisonRows(acts, day), {})
      wolf == IF t = NoOne \/ t \in conv
                   \/ \E k \in 1..Len(poisoned) : poisoned[k] = t THEN <<>>
              ELSE <<[player |-> t, cause |-> "werewolf_attack"]>>
  IN [k \in 1..Len(poisoned) |-> [player |-> poisoned[k], cause |-> "witch_poison"]]
     \o wolf

\* context.deaths once every action has been processed, in the order of the
\* Map: the pack's target comes first, unless a convert took it out; the
\* poisoned players follow, and a poisoned pack target keeps its place with the
\* cause witch_poison.
pendingDeaths(acts, day, t, conv) ==
  LET wolf == IF t = NoOne \/ t \in conv THEN <<>> ELSE <<t>>
      poisoned == TargetsInOrder(PoisonRows(acts, day), {u \in Users : <<u>> = wolf})
      all == wolf \o poisoned
  IN [k \in 1..Len(all) |->
        [player |-> all[k],
         cause |-> IF \E a \in PoisonRows(acts, day) : a.target = all[k]
                     THEN "witch_poison" ELSE "werewolf_attack"]]

\* The loop over context.deaths: each pending death is carried out unless the
\* player is in protectedPlayers or isPlayerProtected says so at that moment.
\* st = [pl |-> players, ev |-> events, pub |-> published].
RECURSIVE commitDeaths(_, _, _, _)
commitDeaths(st, deaths, protectedPlayers, day) ==
  IF deaths = <<>> THEN st
  ELSE LET d == Head(deaths)
           next == IF d.player \notin protectedPlayers
                      /\ ~isPlayerProtected(st.pl, d.player, d.cause)
                     THEN LET killed == killPlayer([pl |-> st.pl, ev |-> st.ev],
                                                   d.player, d.cause, day)
                          IN [pl |-> killed.pl, ev |-> killed.ev, pub |-> st.pub]
                     ELSE [st EXCEPT !.pub = @ \cup {PlayerSaved}]
       IN commitDeaths(next, Tail(deaths), protectedPlayers, day)

\* processNightActions for the action types that change the store:
\* GUARD_PROTECT, CUPID_LINK, WEREWOLF_VOTE, BLACK_WOLF_CONVERT and
\* WITCH_POISON, in the order of prioritizeActions.  t is the pack's target,
\* NoOne when no vote was recorded.
\* st = [pl |-> players, ev |-> events, pub |-> published].
processNightActions(st, acts, day, t) ==
  LET links == CupidLinks(acts, day)
      conv == Converted(acts, day, t)
      lovers == applyCupidLinks(st.pl, links)
      linked == [pl |-> [u \in Users |->
                           IF u \in conv THEN [lovers[u] EXCEPT !.role = "WEREWOLF"]
                           ELSE lovers[u]],
                 ev |-> st.ev,
                 pub |-> st.pub \cup BecameLover(links) \cup RoleChanged(conv)]
  IN commitDeaths(linked, pendingDeaths(acts, day, t, conv),
                  GuardProtected(acts, day), day)

processPhaseEnd(st, acts, currentPhase, day, t) ==
  IF currentPhase = "NIGHT_PHASE" THEN processNightActions(st, acts, day, t) ELSE st

\* ------------------------------------------------------------ win conditions
NoTeam == "NONE"

checkWinConditions(pl) ==
  LET alive == Alive(pl)
      lovers == {p \in alive : pl[p].linkedTo # NoOne}
      werewolves == {p \in alive : pl[p].role \in {"WEREWOLF", "BLACK_WOLF", "WOLF_RIDING_HOOD"}}
      villagers == {p \in alive : getTeamForRole(pl[p].role) = "VILLAGERS"}
      soloPlayers == {p \in alive : getTeamForRole(pl[p].role) = "SOLO"}
  IN IF alive = {} THEN NoTeam
     ELSE IF Cardinality(lovers) = 2 /\ Cardinality(alive) = 2 THEN "VILLAGERS"
     ELSE IF Cardinality(alive) = 1 /\ \A p \in alive : pl[p].role = "WHITE_WOLF" THEN "SOLO"
     ELSE IF Cardinality(werewolves) >= Cardinality(villagers) /\ soloPlayers = {}
       THEN "WEREWOLVES"
     ELSE IF werewolves = {} /\ \A p \in soloPlayers : pl[p].role # "WHITE_WOLF"
       THEN "VILLAGERS"
     ELSE NoTeam

\* ------------------------------------------------------------ initial state
\* createGame: the room is WAITING in LOBBY and the host has joined at position 1.
Init ==
  /\ room = [state |-> "WAITING", phase |-> "LOBBY", dayNumber |-> 0,
             winningTeam |-> NoTeam, hostId |-> 1, phaseEndsAt |-> FALSE]
  /\ players = [u \in Users |->
                  IF u = 1 THEN [NoPlayer EXCEPT !.present = TRUE, !.position = 1]
                  ELSE NoPlayer]
  /\ actions = {}
  /\ events = <<>>
  /\ redisTimers = {}
  /\ phaseTimers = NoTimer
  /\ strayTimers = {}
  /\ calls = [c \in CallIds |-> Idle]
  /\ dispatcher = FALSE
  /\ counters = [failures |-> 0, restarts |-> 0, leaves |-> 0, starts |-> 0,
                 transitions |-> 0]
  /\ abilities = {}
  /\ submits = [i \in SubmitIds |-> NoSubmit]
  /\ published = {}
  /\ joins = [j \in JoinIds |-> NoJoin]
  /\ cache = NoSnapshot
  /\ sockets = {}
  /\ inbox = {}
  /\ graceTimers = NoGrace

FreeCall == CHOOSE c \in CallIds : calls[c].pc = "idle" /\ \A d \in CallIds : calls[d].pc = "idle" => c <= d

\* Another store error or restart may be injected.
CanFault == counters.failures + counters.restarts < MaxFaults

\* Another call of transitionToPhase may be made.
CanCall == Busy # CallIds /\ counters.transitions < MaxTransitions

\* A call of transitionToPhase(gameId, nextPhase) has been made.
NewCall(src, next, timerPhase) ==
  [calls EXCEPT ![FreeCall] = [pc |-> "start", src |-> src, next |-> next,
                               snapPhase |-> "NONE", snapDay |-> 0,
                               timerPhase |-> timerPhase]]

\* ------------------------------------------------------------ cached snapshot
\* createGame stores a snapshot and every later write stores one again with a
\* TTL of an hour, so a room in play always has one.
\* updateCachedPlayer pushes a PlayerInfo that has no role field.
updateCachedPlayer(c, u) == [c EXCEPT !.roles[u] = Hidden]

\* removeCachedPlayer filters the player's entry out of players[].
removeCachedPlayer(c, u) == [c EXCEPT !.roles[u] = Hidden]

\* The GameStateData getGameState builds from the store for requesterId; no
\* code sets isRevealed, so a role is shown to the requester's own player only.
buildGameState(pl, requesterId) ==
  [roles |-> [p \in Users |-> IF pl[p].present /\ p = requesterId
                                THEN pl[p].role ELSE Hidden],
   myRoleOf |-> IF requesterId # NoOne /\ pl[requesterId].present
                  THEN requesterId ELSE NoOne]

\* getGameState: without a requesterId the cached snapshot is returned as it
\* is; with one the snapshot is built and stored.  The result and the cache.
getGameState(pl, c, requesterId) ==
  IF requesterId = NoOne THEN [state |-> c, cache |-> c]
  ELSE [state |-> buildGameState(pl, requesterId),
        cache |-> buildGameState(pl, requesterId)]

\* ------------------------------------------------------------ lobby
\* joinGame; the next user to join is the lowest one not in the room.
JoinGame(u) ==
  /\ room.state = "WAITING"
  /\ Cardinality(Present(players)) < maxPlayers
  /\ ~players[u].present
  /\ \A v \in Users : v < u => players[v].present
  /\ players' = [players EXCEPT ![u] = [NoPlayer EXCEPT !.present = TRUE,
                                        !.position = getNextAvailablePosition(players)]]
  /\ cache' = updateCachedPlayer(cache, u)
  /\ UNCHANGED <<room, actions, events, redisTimers, phaseTimers, strayTimers,
                 calls, dispatcher, counters>>
  /\ UNCHANGED nightVars
  /\ UNCHANGED <<joins, sockets, inbox>>
  /\ UNCHANGED graceTimers

\* leaveGame, with cancelGame.  remainingPlayers[0] is the first row in the order
\* the store returns them, which nothing fixes.
LeaveGame(u) ==
  /\ counters.leaves < MaxLeaves
  /\ players[u].present
  /\ counters' = [counters EXCEPT !.leaves = @ + 1]
  /\ IF room.state = "WAITING"
       THEN /\ players' = [players EXCEPT ![u] = NoPlayer]
            /\ IF room.hostId = u
                 THEN IF Present(players) \ {u} # {}
                        THEN \E h \in Present(players) \ {u} :
                               room' = [room EXCEPT !.hostId = h]
                        ELSE room' = [room EXCEPT !.state = "CANCELLED"]
                 ELSE room' = room
       ELSE /\ players' = [players EXCEPT ![u].state = "DISCONNECTED"]
            /\ room' = room
  /\ cache' = removeCachedPlayer(cache, u)
  /\ UNCHANGED <<actions, events, redisTimers, phaseTimers, strayTimers,
                 calls, dispatcher>>
  /\ UNCHANGED nightVars
  /\ UNCHANGED <<joins, sockets, inbox>>
  /\ UNCHANGED graceTimers

\* initializeAbilities: the roles that are keys of GAME_CONFIG.roleAbilities get
\* their rows, every other role returns early.  cooldownDays is left out.
initializeAbilities(playerId, role) ==
  LET row(abilityType, uses) ==
        [player |-> playerId, abilityType |-> abilityType,
         usesLeft |-> uses, maxUses |-> uses]
  IN CASE role = "WITCH" -> {row("heal", 1), row("poison", 1)}
       [] role = "POISONER" -> {row("poison", 2)}
       [] role = "BLACK_WOLF" -> {row("convert", 1)}
       [] role = "WHITE_WOLF" -> {row("devour", 1)}
       [] role = "DICTATOR" -> {row("coup", 1)}
       [] OTHER -> {}

\* Roles of the pool sh, handed out to the players in the order of their
\* positions.
AssignRoles(pl, sh) ==
  LET index(u) == Cardinality({v \in Present(pl) : pl[v].position <= pl[u].position})
  IN [u \in Users |-> IF pl[u].present THEN [pl[u] EXCEPT !.role = sh[index(u)]]
                      ELSE pl[u]]

\* startGame up to its call of transitionToPhase(NIGHT_PHASE).
StartGame(requester, sh) ==
  /\ counters.starts < MaxStarts
  /\ room.hostId = requester
  /\ Cardinality(Present(players)) >= minPlayers
  /\ CanCall
  /\ counters' = [counters EXCEPT !.starts = @ + 1, !.transitions = @ + 1]
  /\ room' = [room EXCEPT !.state = "STARTING"]
  /\ players' = AssignRoles(players, sh)
  /\ abilities' = abilities \cup
                    UNION {initializeAbilities(u, AssignRoles(players, sh)[u].role) :
                             u \in Present(players)}
  /\ calls' = NewCall("start", "NIGHT_PHASE", "NONE")
  /\ UNCHANGED <<actions, events, redisTimers, phaseTimers, strayTimers, dispatcher,
                 submits, published>>
  /\ UNCHANGED sessionVars
  /\ UNCHANGED graceTimers

\* ------------------------------------------------------------ player inputs
\* performNightAction with action "werewolf_vote": the role of the performer is
\* not looked at.  The row is keyed by performer, type, day and phase.
PerformNightAction(p, t) ==
  /\ room.phase = "NIGHT_PHASE"
  /\ p \in Alive(players)
  /\ t \in Alive(players)
  /\ actions' = {a \in actions : ~(/\ a.performer = p
                                   /\ a.actionType = "WEREWOLF_VOTE"
                                   /\ a.day = room.dayNumber
                                   /\ a.phase = "NIGHT_PHASE")}
                \cup {[performer |-> p, target |-> t, actionType |-> "WEREWOLF_VOTE",
                       day |-> room.dayNumber, phase |-> "NIGHT_PHASE",
                       metadata |-> NoMeta]}
  /\ UNCHANGED <<room, players, events, redisTimers, phaseTimers, strayTimers,
                 calls, dispatcher, counters>>
  /\ UNCHANGED nightVars
  /\ UNCHANGED sessionVars
  /\ UNCHANGED graceTimers

DayVotes(acts, day) ==
  {a \in acts : a.actionType = "DAY_VOTE" /\ a.day = day /\ a.phase = "DAY_VOTING"}

\* castVote; t = NoOne is an abstention.  The voters of a day vote once each,
\* in the order of their ids.
CastVote(v, t) ==
  /\ room.phase = "DAY_VOTING"
  /\ v \in Alive(players)
  /\ \A w \in Alive(players) : w < v => \E a \in DayVotes(actions, room.dayNumber) : a.performer = w
  /\ \A a \in DayVotes(actions, room.dayNumber) : a.performer # v
  /\ t # NoOne => t \in Alive(players)
  /\ LET acts == {a \in actions : ~(a \in DayVotes(actions, room.dayNumber) /\ a.performer = v)}
                   \cup {[performer |-> v, target |-> t, actionType |-> "DAY_VOTE",
                          day |-> room.dayNumber, phase |-> "DAY_VOTING",
                          metadata |-> NoMeta]}
         voteCount == Cardinality(DayVotes(acts, room.dayNumber))
     IN /\ actions' = acts
        /\ redisTimers' = IF voteCount = Cardinality(Alive(players))
                            THEN redisTimers \cup {AllVoted}
                            ELSE redisTimers
  /\ UNCHANGED <<room, players, events, phaseTimers, strayTimers,
                 calls, dispatcher, counters>>
  /\ UNCHANGED nightVars
  /\ UNCHANGED sessionVars
  /\ UNCHANGED graceTimers

\* ------------------------------------------------------------ pubsub
\* A Redis channel name, as the list of its parts between the colons.  The
\* room's id is the one part that never varies.
GameId == "G"

publishGameEvent(event) == <<"game", GameId, event>>

publishPlayerEvent(playerId, event) == <<"game", GameId, "player", playerId, event>>

\* The events published with publishPlayerEvent; the others go through
\* publishGameEvent.
PlayerEvents ==
  {"became_lover", "action_recorded", "hunter_revenge", "role_stolen", "role_changed"}

ChannelOf(e) ==
  IF e.event \in PlayerEvents THEN publishPlayerEvent(e.player, e.event)
  ELSE publishGameEvent(e.event)

\* What a socket receives: the name of the event and, for a game:state, the
\* snapshot.
Received(to, eventType, snapshot) ==
  [to |-> to, eventType |-> eventType, roles |-> snapshot.roles,
   myRoleOf |-> snapshot.myRoleOf]

\* The "pmessage" handler of GamePubSub: the second part of the channel names
\* the Socket.IO room, the parts after it are the event name, and the message
\* goes to every socket of that room.
setupSubscriptions(channel, socks) ==
  IF channel[1] = "game" /\ Len(channel) >= 3 /\ channel[2] = GameId
    THEN {Received(u, SubSeq(channel, 3, Len(channel)), NoSnapshot) : u \in socks}
    ELSE {}

\* socket.emit: to the socket of the caller only.
emit(to, event) == {Received(to, <<event>>, NoSnapshot)}

\* Everything the events pub bring to the sockets socks.
Deliver(pub, socks) ==
  UNION {IF e.event = "error" THEN emit(e.player, e.event)
         ELSE setupSubscriptions(ChannelOf(e), socks) : e \in pub}

\* ------------------------------------------------------------ transitionToPhase
\* The "game_ended" event that endGame publishes to the room.
GameEnded == [event |-> "game_ended", player |-> NoOne, action |-> "none"]

\* clearPhaseTimer: the timer the map holds is cancelled, every member of
\* "phase_timers" that names the room is removed.  Then the room is read.
CallBegin(c) ==
  /\ calls[c].pc = "start"
  /\ phaseTimers' = NoTimer
  /\ redisTimers' = {}
  /\ calls' = [calls EXCEPT ![c].pc = "begun",
                            ![c].snapPhase = room.phase,
                            ![c].snapDay = room.dayNumber]
  /\ UNCHANGED <<room, players, actions, events, strayTimers, dispatcher, counters>>
  /\ UNCHANGED nightVars
  /\ UNCHANGED sessionVars
  /\ UNCHANGED graceTimers

\* startNightPhase and startVotingPhase read the room through the shared client,
\* so they see the dayNumber committed before this transition.
executePhaseTransition(acts, phase, day) ==
  IF phase = "NIGHT_PHASE" THEN acts \ NightActionsOf(acts, day)
  ELSE IF phase = "DAY_VOTING" THEN {a \in acts : ~(a.actionType = "DAY_VOTE" /\ a.day = day)}
  ELSE acts

PhaseTimer(phase) == [kind |-> "phase", phase |-> phase, due |-> FALSE]

\* The local timers left pending once schedulePhaseEnd has overwritten the map entry.
Leaked == IF phaseTimers = NoTimer THEN strayTimers ELSE strayTimers \cup {phaseTimers}

Results == {"ok", "failUpdate", "failLate"}

\* The rest of the body of transitionToPhase.  result says where a store error
\* strikes: nowhere, at the update of the room, or after schedulePhaseEnd.
\* t is the target processAction finds for the pack.
CallBody(c, result, t) ==
  LET call == calls[c]
      top == WolfTop(actions, room.dayNumber)
      st == processPhaseEnd([pl |-> players, ev |-> events, pub |-> {}],
                            actions, call.snapPhase, room.dayNumber, t)
      winner == checkWinConditions(st.pl)
      duration == getPhaseDuration(call.next)
  IN
  /\ call.pc = "begun"
  /\ t \in (IF call.snapPhase = "NIGHT_PHASE" /\ top # {} THEN top ELSE {NoOne})
  /\ result # "ok" => CanFault
  /\ counters' = IF result = "ok" THEN counters
                 ELSE [counters EXCEPT !.failures = @ + 1]
  /\ calls' = [calls EXCEPT ![c] = Idle]
  /\ players' = st.pl
  /\ events' = st.ev
  /\ published' = IF result = "ok" /\ winner # NoTeam
                    THEN st.pub \cup {GameEnded} ELSE st.pub
  /\ inbox' = Deliver(published', sockets)
  /\ UNCHANGED <<dispatcher, abilities, submits, joins, cache, sockets>>
  /\ IF result = "failUpdate"
       THEN UNCHANGED <<room, actions, redisTimers, phaseTimers, strayTimers>>
     ELSE IF winner # NoTeam
       THEN \* endGame
            /\ result = "ok"
            /\ room' = [room EXCEPT !.state = "ENDED", !.phase = "GAME_END",
                                    !.winningTeam = winner]
            /\ phaseTimers' = NoTimer
            /\ redisTimers' = {}
            /\ UNCHANGED <<actions, strayTimers>>
     ELSE /\ room' = IF result = "ok"
                       THEN [room EXCEPT !.phase = call.next,
                                         !.state = getStateForPhase(call.next),
                                         !.phaseEndsAt = (duration # 0),
                                         !.dayNumber = IF call.next = "NIGHT_PHASE"
                                                         THEN call.snapDay + 1
                                                         ELSE call.snapDay]
                       ELSE room
          /\ actions' = executePhaseTransition(actions, call.next, room.dayNumber)
          /\ IF duration # 0 /\ call.next # "GAME_END"
               THEN /\ redisTimers' = redisTimers \cup {PhaseTimer(call.next)}
                    /\ strayTimers' = Leaked
                    /\ phaseTimers' = [phase |-> call.next, due |-> FALSE]
               ELSE UNCHANGED <<redisTimers, phaseTimers, strayTimers>>
  /\ UNCHANGED graceTimers

\* ------------------------------------------------------------ timers
Pending ==
  \/ \E e \in redisTimers : ~e.due
  \/ phaseTimers # NoTimer /\ ~phaseTimers.due
  \/ \E x \in strayTimers : ~x.due

\* The phase durations run out.  They are far longer than a transition takes, so
\* no timer falls due while a transition is in flight.
Deadline ==
  /\ Quiet
  /\ Pending
  /\ redisTimers' = {[e EXCEPT !.due = TRUE] : e \in redisTimers}
  /\ phaseTimers' = IF phaseTimers = NoTimer THEN NoTimer
                    ELSE [phaseTimers EXCEPT !.due = TRUE]
  /\ strayTimers' = {[x EXCEPT !.due = TRUE] : x \in strayTimers}
  /\ UNCHANGED <<room, players, actions, events, calls, dispatcher, counters>>
  /\ UNCHANGED nightVars
  /\ UNCHANGED sessionVars
  /\ UNCHANGED graceTimers

\* The backup timeout of schedulePhaseEnd that the map holds fires.
LocalFire ==
  /\ phaseTimers # NoTimer
  /\ phaseTimers.due
  /\ CanCall
  /\ counters' = [counters EXCEPT !.transitions = @ + 1]
  /\ calls' = NewCall("local", getNextPhase(phaseTimers.phase), phaseTimers.phase)
  /\ phaseTimers' = NoTimer
  /\ UNCHANGED <<room, players, actions, events, redisTimers, strayTimers,
                 dispatcher>>
  /\ UNCHANGED nightVars
  /\ UNCHANGED sessionVars
  /\ UNCHANGED graceTimers

\* A backup timeout that the map no longer refers to fires.
StrayFire(x) ==
  /\ x \in strayTimers
  /\ x.due
  /\ CanCall
  /\ counters' = [counters EXCEPT !.transitions = @ + 1]
  /\ calls' = NewCall("local", getNextPhase(x.phase), x.phase)
  /\ strayTimers' = strayTimers \ {x}
  /\ UNCHANGED <<room, players, actions, events, redisTimers, phaseTimers,
                 dispatcher>>
  /\ UNCHANGED nightVars
  /\ UNCHANGED sessionVars
  /\ UNCHANGED graceTimers

\* initializeTimerProcessor is public; no code of the repository calls it, so
\* the dispatcher runs only once something outside has started it.
initializeTimerProcessor ==
  /\ ~dispatcher
  /\ dispatcher' = TRUE
  /\ UNCHANGED <<room, players, actions, events, redisTimers, phaseTimers,
                 strayTimers, calls, counters>>
  /\ UNCHANGED nightVars
  /\ UNCHANGED sessionVars
  /\ UNCHANGED graceTimers

\* processExpiredTimers finds an expired member whose phase is the room's and
\* calls transitionToPhase; one tick handles its members one after the other.
DispatchFire(e) ==
  /\ dispatcher
  /\ e \in redisTimers
  /\ e.due
  /\ e.phase = room.phase
  /\ \A c \in CallIds : calls[c].src # "redis"
  /\ CanCall
  /\ counters' = [counters EXCEPT !.transitions = @ + 1]
  /\ calls' = NewCall("redis", getNextPhase(e.phase), e.phase)
  /\ UNCHANGED <<room, players, actions, events, redisTimers, phaseTimers,
                 strayTimers, dispatcher>>
  /\ UNCHANGED nightVars
  /\ UNCHANGED sessionVars
  /\ UNCHANGED graceTimers

\* processExpiredTimers finds an expired member whose phase is not the room's
\* (an "all_voted" member carries no phase) and removes it.
DispatchDrop(e) ==
  /\ dispatcher
  /\ e \in redisTimers
  /\ e.due
  /\ e.phase # room.phase
  /\ \A c \in CallIds : calls[c].src # "redis"
  /\ redisTimers' = redisTimers \ {e}
  /\ UNCHANGED <<room, players, actions, events, phaseTimers, strayTimers,
                 calls, dispatcher, counters>>
  /\ UNCHANGED nightVars
  /\ UNCHANGED sessionVars
  /\ UNCHANGED graceTimers

\* The process stops and createApp builds the services anew: the timeouts and
\* the transitions in flight are gone, the store and Redis keep what they hold.
\* createApp does not call initializeTimerProcessor.  Restarts of a room that
\* nobody has started are left out.
Restart ==
  /\ CanFault
  /\ room.state # "WAITING"
  /\ counters' = [counters EXCEPT !.restarts = @ + 1]
  /\ calls' = [c \in CallIds |-> Idle]
  /\ phaseTimers' = NoTimer
  /\ strayTimers' = {}
  /\ dispatcher' = FALSE
  /\ submits' = [i \in SubmitIds |-> NoSubmit]
  /\ joins' = [j \in JoinIds |-> NoJoin]
  /\ sockets' = {}
  /\ graceTimers' = NoGrace
  /\ UNCHANGED <<room, players, actions, events, redisTimers, abilities, published,
                 cache, inbox>>

\* ------------------------------------------------------------ specification
Next ==
  \/ \E u \in Joiners : JoinGame(u)
  \/ \E u \in Leavers : LeaveGame(u)
  \/ \E u \in Users, sh \in Shuffles : StartGame(u, sh)
  \/ \E p \in NightPerformers, t \in NightTargets : PerformNightAction(p, t)
  \/ \E v \in Users, t \in VoteTargets : CastVote(v, t)
  \/ \E c \in CallIds : CallBegin(c)
  \/ \E c \in CallIds, r \in Results, t \in Users \cup {NoOne} : CallBody(c, r, t)
  \/ Deadline
  \/ LocalFire
  \/ \E x \in strayTimers : StrayFire(x)
  \/ initializeTimerProcessor
  \/ \E e \in redisTimers : DispatchFire(e)
  \/ \E e \in redisTimers : DispatchDrop(e)
  \/ Restart

Spec == Init /\ [][Next]_vars

\* ------------------------------------------------------------ a room at night
\* A room of six players that has started: roles are assigned, the first night
\* has begun and its timers are scheduled.  Players submit night actions and
\* lose their connection while the phase timers drive the room on.

\* Role pool of assignRoles for six players, after shuffling.
NightCasts ==
  { <<"WEREWOLF", "WITCH", "SEER", "VILLAGER", "VILLAGER", "VILLAGER">> }

\* What the sockets send: action:night, cupid:link and witch:potion.
Submissions ==
  { [performer |-> 1, action |-> "werewolf_vote", target |-> 6, metadata |-> NoMeta],
    [performer |-> 2, action |-> "werewolf_vote", target |-> 1, metadata |-> NoMeta],
    [performer |-> 4, action |-> "guard_protect", target |-> 6, metadata |-> NoMeta],
    [performer |-> 5, action |-> "cupid_link", target |-> NoOne, metadata |-> <<6, 5>>],
    [performer |-> 5, action |-> "cupid_link", target |-> NoOne, metadata |-> <<6, 3>>],
    [performer |-> 2, action |-> "witch_heal", target |-> 6, metadata |-> NoMeta] }

Disconnectors == {6}

NoType == "NONE"

mapActionToType(action) ==
  CASE action = "werewolf_vote" -> "WEREWOLF_VOTE"
    [] action = "seer_investigate" -> "SEER_INVESTIGATE"
    [] action = "witch_heal" -> "WITCH_HEAL"
    [] action = "witch_poison" -> "WITCH_POISON"
    [] action = "guard_protect" -> "GUARD_PROTECT"
    [] action = "hunter_shoot" -> "HUNTER_SHOOT"
    [] action = "dictator_coup" -> "DICTATOR_COUP"
    [] action = "cupid_link" -> "CUPID_LINK"
    [] action = "heir_choose" -> "HEIR_CHOOSE"
    [] action = "white_wolf_devour" -> "WHITE_WOLF_DEVOUR"
    [] action = "black_wolf_convert" -> "BLACK_WOLF_CONVERT"
    [] OTHER -> NoType

requiresAbilityUse(actionType) ==
  actionType \in {"WITCH_HEAL", "WITCH_POISON", "DICTATOR_COUP",
                  "BLACK_WOLF_CONVERT", "WHITE_WOLF_DEVOUR"}

requiresTarget(actionType) == actionType # "HUNTER_SHOOT"

\* The lookup as it would be if the potion actions were matched to the ability
\* rows that initializeAbilities creates ("heal", "poison").
findAbilityByPotion(abs, playerId, action) ==
  {a \in abs : /\ a.player = playerId
               /\ a.abilityType = (IF action = "witch_heal" THEN "heal"
                                   ELSE IF action = "witch_poison" THEN "poison"
                                   ELSE action)}

\* ability.findUnique of performNightAction: the row of the player whose
\* abilityType is the action string the socket sent.
findAbility(abs, playerId, action) ==
  {a \in abs : a.player = playerId /\ a.abilityType = action}

\* The GUARD_PROTECT of the night before, as performNightAction looks it up.
lastProtection(acts, playerId, day) ==
  {a \in acts : /\ a.performer = playerId /\ a.actionType = "GUARD_PROTECT"
                 /\ a.day = day - 1}

\* The checks of performNightAction, on what it read; "ok" when all pass.
\* The cooldown check concerns WHITE_WOLF only and is left out.
checkNightAction(rm, pl, acts, abs, s) ==
  LET actionType == mapActionToType(s.action) IN
  IF rm.phase # "NIGHT_PHASE" THEN "Invalid phase for night action"
  ELSE IF s.performer \notin Alive(pl) THEN "Invalid player"
  ELSE IF actionType = NoType THEN "Invalid action for role"
  ELSE IF requiresAbilityUse(actionType)
          /\ \A a \in findAbility(abs, s.performer, s.action) : a.usesLeft <= 0
    THEN "No uses left for this ability"
  ELSE IF s.target # NoOne /\ requiresTarget(actionType) /\ s.target \notin Alive(pl)
    THEN "Invalid target"
  ELSE IF s.target # NoOne /\ actionType = "GUARD_PROTECT" /\ s.target = s.performer
    THEN "Cannot protect yourself"
  ELSE IF s.target # NoOne /\ actionType = "GUARD_PROTECT"
          /\ \E a \in lastProtection(acts, s.performer, rm.dayNumber) : a.target = s.target
    THEN "Cannot protect the same player twice in a row"
  ELSE "ok"

Error(s) == [event |-> "error", player |-> s.performer, action |-> s.action]
ActionRecorded(s) == [event |-> "action_recorded", player |-> s.performer, action |-> s.action]

FreeSubmit ==
  CHOOSE i \in SubmitIds :
    submits[i].pc = "idle" /\ \A j \in SubmitIds : submits[j].pc = "idle" => i <= j

InFlight == {i \in SubmitIds : submits[i].pc # "idle"}

\* performNightAction up to its writes: the room is read and the checks are
\* made; a failed check is reported to the caller.  Players send night actions
\* during the night; calls of one player may overlap, calls of different
\* players come one after the other.
NightActionBegin(s) ==
  /\ room.phase = "NIGHT_PHASE"
  /\ InFlight # SubmitIds
  /\ \A i \in InFlight : submits[i].performer = s.performer
  /\ IF checkNightAction(room, players, actions, abilities, s) = "ok"
       THEN /\ submits' = [submits EXCEPT ![FreeSubmit] =
                             [pc |-> "checked", performer |-> s.performer,
                              action |-> s.action, target |-> s.target,
                              metadata |-> s.metadata, day |-> room.dayNumber]]
            /\ UNCHANGED <<published, inbox>>
       ELSE /\ published' = {Error(s)}
            /\ inbox' = Deliver({Error(s)}, sockets)
            /\ UNCHANGED submits
  /\ UNCHANGED <<room, players, actions, events, redisTimers, phaseTimers,
                 strayTimers, calls, dispatcher, counters, abilities>>
  /\ UNCHANGED <<joins, cache, sockets>>
  /\ UNCHANGED graceTimers

\* gameAction.upsert on (performer, actionType, dayNumber, phase).
upsertAction(acts, s) ==
  {a \in acts : ~(/\ a.performer = s.performer
                   /\ a.actionType = mapActionToType(s.action)
                   /\ a.day = s.day
                   /\ a.phase = "NIGHT_PHASE")}
  \cup {[performer |-> s.performer, target |-> s.target,
         actionType |-> mapActionToType(s.action), day |-> s.day,
         phase |-> "NIGHT_PHASE", metadata |-> s.metadata]}

\* ability.update with usesLeft: { decrement: 1 }.
decrementUses(abs, playerId, action) ==
  {IF a \in findAbility(abs, playerId, action)
     THEN [a EXCEPT !.usesLeft = @ - 1] ELSE a : a \in abs}

\* The writes of performNightAction: the action row, the use of the ability,
\* the "action_recorded" event.
NightActionEnd(i) ==
  LET s == submits[i] IN
  /\ s.pc = "checked"
  /\ actions' = upsertAction(actions, s)
  /\ abilities' = IF requiresAbilityUse(mapActionToType(s.action))
                     THEN decrementUses(abilities, s.performer, s.action)
                     ELSE abilities
  /\ published' = {ActionRecorded(s)}
  /\ inbox' = Deliver({ActionRecorded(s)}, sockets)
  /\ submits' = [submits EXCEPT ![i] = NoSubmit]
  /\ UNCHANGED <<room, players, events, redisTimers, phaseTimers, strayTimers,
                 calls, dispatcher, counters, joins, cache, sockets>>
  /\ UNCHANGED graceTimers

\* handlePlayerDisconnect, on the "disconnect" of a player's socket, which
\* leaves its Socket.IO rooms.
handlePlayerDisconnect(u) ==
  /\ u \in sockets
  /\ players[u].present
  /\ graceTimers[u] < MaxGrace
  /\ players' = [players EXCEPT ![u].state = "DISCONNECTED"]
  /\ sockets' = sockets \ {u}
  /\ graceTimers' = [graceTimers EXCEPT ![u] = @ + 1]
  /\ UNCHANGED <<room, actions, events, redisTimers, phaseTimers, strayTimers,
                 calls, dispatcher, counters, abilities, submits, published,
                 joins, cache, inbox>>

NightInit ==
  /\ room = [state |-> "NIGHT", phase |-> "NIGHT_PHASE", dayNumber |-> 1,
             winningTeam |-> NoTeam, hostId |-> 1, phaseEndsAt |-> TRUE]
  /\ \E sh \in NightCasts :
       /\ players = AssignRoles([u \in Users |-> [NoPlayer EXCEPT !.present = TRUE,
                                                                  !.position = u]], sh)
       /\ abilities = UNION {initializeAbilities(u, sh[u]) : u \in Users}
  /\ actions = {}
  /\ events = <<>>
  /\ redisTimers = {PhaseTimer("NIGHT_PHASE")}
  /\ phaseTimers = [phase |-> "NIGHT_PHASE", due |-> FALSE]
  /\ strayTimers = {}
  /\ calls = [c \in CallIds |-> Idle]
  /\ dispatcher = FALSE
  /\ counters = [failures |-> 0, restarts |-> 0, leaves |-> 0, starts |-> 1,
                 transitions |-> 1]
  /\ submits = [i \in SubmitIds |-> NoSubmit]
  /\ published = {}
  /\ joins = [j \in JoinIds |-> NoJoin]
  /\ cache = NoSnapshot
  /\ sockets = Users
  /\ inbox = {}
  /\ graceTimers = NoGrace

\* The phase durations are far longer than a night-action call takes.
NightDeadline == InFlight = {} /\ Deadline

NightNext ==
  \/ \E s \in Submissions : NightActionBegin(s)
  \/ \E i \in SubmitIds : NightActionEnd(i)
  \/ \E u \in Disconnectors : handlePlayerDisconnect(u)
  \/ NightDeadline
  \/ LocalFire
  \/ \E c \in CallIds : CallBegin(c)
  \/ \E c \in CallIds, t \in Users \cup {NoOne} : CallBody(c, "ok", t)

NightSpec == NightInit /\ [][NightNext]_vars

\* ------------------------------------------------------------ special roles
\* A night room whose cast holds a BLACK_WOLF, a PLUNDERER and a HUNTER.  The
\* role distribution never hands these three out together, so the cast is
\* drawn; the resolver reads whatever rows the store holds, so the
\* BLACK_WOLF_CONVERT row of the first night is drawn too.
RoleCasts ==
  { <<"WEREWOLF", "BLACK_WOLF", "VILLAGER", "PLUNDERER", "VILLAGER", "HUNTER">> }

ConvertRow(target) ==
  [performer |-> 2, target |-> target, actionType |-> "BLACK_WOLF_CONVERT",
   day |-> 1, phase |-> "NIGHT_PHASE", metadata |-> NoMeta]

RoleRecorded == { {}, {ConvertRow(5)}, {ConvertRow(6)} }

RoleSubmissions ==
  { [performer |-> 1, action |-> "werewolf_vote", target |-> 6, metadata |-> NoMeta],
    [performer |-> 2, action |-> "werewolf_vote", target |-> 1, metadata |-> NoMeta],
    [performer |-> 5, action |-> "cupid_link", target |-> NoOne, metadata |-> <<6, 5>>],
    [performer |-> 2, action |-> "black_wolf_convert", target |-> 5, metadata |-> NoMeta] }

RevengeTargets == {1, 3}

\* What the hunter:revenge handler passes to performNightAction.
Revenge(h, t) ==
  [performer |-> h, action |-> "HUNTER_SHOOT", target |-> t, metadata |-> NoMeta]

\* The hunter:revenge handler, sent by a HUNTER who has died and names a player
\* who is ALIVE: performNightAction up to its writes, in whatever phase the room
\* is.
HunterRevenge(h, t) ==
  LET s == Revenge(h, t) IN
  /\ players[h].present /\ players[h].role = "HUNTER" /\ players[h].state = "DEAD"
  /\ t \in Alive(players)
  /\ InFlight = {}
  /\ IF checkNightAction(room, players, actions, abilities, s) = "ok"
       THEN /\ submits' = [submits EXCEPT ![FreeSubmit] =
                             [pc |-> "checked", performer |-> s.performer,
                              action |-> s.action, target |-> s.target,
                              metadata |-> s.metadata, day |-> room.dayNumber]]
            /\ UNCHANGED <<published, inbox>>
       ELSE /\ published' = {Error(s)}
            /\ inbox' = Deliver({Error(s)}, sockets)
            /\ UNCHANGED submits
  /\ UNCHANGED <<room, players, actions, events, redisTimers, phaseTimers,
                 strayTimers, calls, dispatcher, counters, abilities>>
  /\ UNCHANGED <<joins, cache, sockets>>
  /\ UNCHANGED graceTimers

RoleInit ==
  /\ room = [state |-> "NIGHT", phase |-> "NIGHT_PHASE", dayNumber |-> 1,
             winningTeam |-> NoTeam, hostId |-> 1, phaseEndsAt |-> TRUE]
  /\ \E sh \in RoleCasts :
       /\ players = [u \in Users |-> [NoPlayer EXCEPT !.present = TRUE,
                                                      !.position = u,
                                                      !.role = sh[u]]]
       /\ abilities = UNION {initializeAbilities(u, sh[u]) : u \in Users}
  /\ actions \in RoleRecorded
  /\ events = <<>>
  /\ redisTimers = {PhaseTimer("NIGHT_PHASE")}
  /\ phaseTimers = [phase |-> "NIGHT_PHASE", due |-> FALSE]
  /\ strayTimers = {}
  /\ calls = [c \in CallIds |-> Idle]
  /\ dispatcher = FALSE
  /\ counters = [failures |-> 0, restarts |-> 0, leaves |-> 0, starts |-> 1,
                 transitions |-> 1]
  /\ submits = [i \in SubmitIds |-> NoSubmit]
  /\ published = {}
  /\ joins = [j \in JoinIds |-> NoJoin]
  /\ cache = NoSnapshot
  /\ sockets = Users
  /\ inbox = {}
  /\ graceTimers = NoGrace

RoleNext ==
  \/ \E s \in RoleSubmissions : NightActionBegin(s)
  \/ \E i \in SubmitIds : NightActionEnd(i)
  \/ \E h \in Users, t \in RevengeTargets : HunterRevenge(h, t)
  \/ NightDeadline
  \/ LocalFire
  \/ \E c \in CallIds : CallBegin(c)
  \/ \E c \in CallIds, t \in Users \cup {NoOne} : CallBody(c, "ok", t)

RoleSpec == RoleInit /\ [][RoleNext]_vars

\* ------------------------------------------------------------ win evaluation
\* The win evaluation over a table of three players: their roles, states and
\* links are drawn, the room is in DAY_DISCUSSION with its timers scheduled and
\* the phase timer takes it through one transition.
WinRoles == {"WEREWOLF", "VILLAGER", "WHITE_WOLF", "MERCENARY"}
WinStates == {"ALIVE", "DEAD"}
WinPlayers == 1..3
WinLinks == {NoOne} \cup WinPlayers

WinInit ==
  /\ room = [state |-> "DAY", phase |-> "DAY_DISCUSSION", dayNumber |-> 1,
             winningTeam |-> NoTeam, hostId |-> 1, phaseEndsAt |-> TRUE]
  /\ \E r \in [WinPlayers -> WinRoles], s \in [WinPlayers -> WinStates],
        l1 \in WinLinks, l2 \in WinLinks :
       players = [u \in Users |->
                    IF u \in WinPlayers
                      THEN [present |-> TRUE, position |-> u, state |-> s[u],
                            role |-> r[u], diedAt |-> (s[u] = "DEAD"),
                            linkedTo |-> IF u = 1 THEN l1 ELSE IF u = 2 THEN l2 ELSE NoOne]
                      ELSE NoPlayer]
  /\ actions = {}
  /\ events = <<>>
  /\ redisTimers = {PhaseTimer("DAY_DISCUSSION")}
  /\ phaseTimers = [phase |-> "DAY_DISCUSSION", due |-> FALSE]
  /\ strayTimers = {}
  /\ calls = [c \in CallIds |-> Idle]
  /\ dispatcher = FALSE
  /\ counters = [failures |-> 0, restarts |-> 0, leaves |-> 0, starts |-> 1,
                 transitions |-> MaxTransitions - 1]
  /\ abilities = {}
  /\ submits = [i \in SubmitIds |-> NoSubmit]
  /\ published = {}
  /\ joins = [j \in JoinIds |-> NoJoin]
  /\ cache = NoSnapshot
  /\ sockets = WinPlayers
  /\ inbox = {}
  /\ graceTimers = NoGrace

WinNext ==
  \/ Deadline
  \/ LocalFire
  \/ \E c \in CallIds : CallBegin(c)
  \/ \E c \in CallIds : CallBody(c, "ok", NoOne)

WinSpec == WinInit /\ [][WinNext]_vars

\* ------------------------------------------------------------ a lobby
\* A room in the lobby with four players whose sockets have joined.  More users
\* send game:join, players leave, users fetch the room's state over HTTP and
\* the host starts the game; the requests overlap.
LobbyPlayers == 1..4
LobbyJoiners == {5, 6}
Requesters == {1, 2}

\* The store's constraints on Player rows: one row per user and room, one row
\* per position and room.
PlayerUnique(pl, u, position) ==
  /\ ~pl[u].present
  /\ \A v \in Present(pl) : pl[v].position # position

FreeJoin ==
  CHOOSE j \in JoinIds : joins[j].pc = "idle" /\ \A k \in JoinIds : joins[k].pc = "idle" => j <= k

\* game:join, first part: joinGame reads the room with its players, makes its
\* checks, finds the user's player or picks a position for a new one.
JoinRead(u) ==
  /\ \E j \in JoinIds : joins[j].pc = "idle"
  /\ IF room.state # "WAITING" \/ Cardinality(Present(players)) >= maxPlayers
       THEN /\ inbox' = emit(u, "error")
            /\ UNCHANGED joins
     ELSE IF players[u].present
       THEN /\ joins' = [joins EXCEPT ![FreeJoin] =
                           [pc |-> "joined", user |-> u, position |-> players[u].position]]
            /\ UNCHANGED inbox
     ELSE /\ joins' = [joins EXCEPT ![FreeJoin] =
                         [pc |-> "read", user |-> u,
                          position |-> getNextAvailablePosition(players)]]
          /\ UNCHANGED inbox
  /\ UNCHANGED <<room, players, actions, events, redisTimers, phaseTimers, strayTimers,
                 calls, dispatcher, counters, cache, sockets>>
  /\ UNCHANGED nightVars
  /\ UNCHANGED graceTimers

\* game:join, second part: joinGame creates the player at the position it
\* picked and adds it to the cached snapshot; a create the store refuses throws.
JoinCreate(j) ==
  LET u == joins[j].user
      position == joins[j].position
  IN
  /\ joins[j].pc = "read"
  /\ IF PlayerUnique(players, u, position)
       THEN /\ players' = [players EXCEPT ![u] = [NoPlayer EXCEPT !.present = TRUE,
                                                             !.position = position]]
            /\ cache' = updateCachedPlayer(cache, u)
            /\ joins' = [joins EXCEPT ![j].pc = "joined"]
            /\ UNCHANGED inbox
       ELSE /\ joins' = [joins EXCEPT ![j] = NoJoin]
            /\ inbox' = emit(u, "error")
            /\ UNCHANGED <<players, cache>>
  /\ UNCHANGED <<room, actions, events, redisTimers, phaseTimers, strayTimers,
                 calls, dispatcher, counters, sockets>>
  /\ UNCHANGED nightVars
  /\ UNCHANGED graceTimers

\* game:join, last part: the socket joins the Socket.IO room and is sent what
\* getGameState(gameId) returns.
JoinState(j) ==
  LET u == joins[j].user
      got == getGameState(players, cache, NoOne)
  IN
  /\ joins[j].pc = "joined"
  /\ sockets' = sockets \cup {u}
  /\ cache' = got.cache
  /\ inbox' = {Received(u, <<"game:state">>, got.state)}
  /\ joins' = [joins EXCEPT ![j] = NoJoin]
  /\ UNCHANGED <<room, players, actions, events, redisTimers, phaseTimers, strayTimers,
                 calls, dispatcher, counters>>
  /\ UNCHANGED nightVars
  /\ UNCHANGED graceTimers

\* GET /:gameId by the authenticated user r: getGameState(gameId, r).
GetGameState(r) ==
  LET got == getGameState(players, cache, r) IN
  /\ cache' = got.cache
  /\ inbox' = {Received(r, <<"game:state">>, got.state)}
  /\ UNCHANGED <<room, players, actions, events, redisTimers, phaseTimers, strayTimers,
                 calls, dispatcher, counters, joins, sockets>>
  /\ UNCHANGED nightVars
  /\ UNCHANGED graceTimers

\* The 60-second timeout of handlePlayerDisconnect fires for u: the oldest of
\* u's pending timeouts.  A player still DISCONNECTED in a WAITING room is taken
\* out with leaveGame; the two reads and leaveGame are taken as one step.
GraceFire(u) ==
  /\ graceTimers[u] > 0
  /\ graceTimers' = [graceTimers EXCEPT ![u] = @ - 1]
  /\ IF players[u].present /\ players[u].state = "DISCONNECTED"
        /\ room.state = "WAITING"
       THEN /\ players' = [players EXCEPT ![u] = NoPlayer]
            /\ IF room.hostId = u
                 THEN IF Present(players) \ {u} # {}
                        THEN \E h \in Present(players) \ {u} :
                               room' = [room EXCEPT !.hostId = h]
                        ELSE room' = [room EXCEPT !.state = "CANCELLED"]
                 ELSE room' = room
            /\ cache' = removeCachedPlayer(cache, u)
       ELSE UNCHANGED <<players, room, cache>>
  /\ UNCHANGED <<actions, events, redisTimers, phaseTimers, strayTimers,
                 calls, dispatcher, counters, joins, sockets, inbox>>
  /\ UNCHANGED nightVars

LobbyInit ==
  /\ room = [state |-> "WAITING", phase |-> "LOBBY", dayNumber |-> 0,
             winningTeam |-> NoTeam, hostId |-> 1, phaseEndsAt |-> FALSE]
  /\ players = [u \in Users |->
                  IF u \in LobbyPlayers
                    THEN [NoPlayer EXCEPT !.present = TRUE, !.position = u]
                    ELSE NoPlayer]
  /\ actions = {}
  /\ events = <<>>
  /\ redisTimers = {}
  /\ phaseTimers = NoTimer
  /\ strayTimers = {}
  /\ calls = [c \in CallIds |-> Idle]
  /\ dispatcher = FALSE
  /\ counters = [failures |-> 0, restarts |-> 0, leaves |-> 0, starts |-> 0,
                 transitions |-> 0]
  /\ abilities = {}
  /\ submits = [i \in SubmitIds |-> NoSubmit]
  /\ published = {}
  /\ joins = [j \in JoinIds |-> NoJoin]
  /\ cache = NoSnapshot
  /\ sockets = LobbyPlayers
  /\ inbox = {}
  /\ graceTimers = NoGrace

LobbyNext ==
  \/ \E u \in LobbyJoiners : JoinRead(u)
  \/ \E j \in JoinIds : JoinCreate(j)
  \/ \E j \in JoinIds : JoinState(j)
  \/ \E r \in Requesters : GetGameState(r)
  \/ \E u \in Leavers : LeaveGame(u)
  \/ \E u \in Users, sh \in Shuffles \cup NightCasts :
       Len(sh) = Cardinality(Present(players)) /\ StartGame(u, sh)

LobbySpec == LobbyInit /\ [][LobbyNext]_vars

\* ------------------------------------------------------------ reconnection
\* The lobby of four with a socket that drops and comes back: a socket that
\* comes back sends game:join again.  One more user joins, so that the host can
\* start the game.
Droppers == {2}
GraceJoiners == {5}

GraceNext ==
  \/ \E u \in Droppers : handlePlayerDisconnect(u)
  \/ \E u \in Droppers : GraceFire(u)
  \/ \E u \in Droppers \cup GraceJoiners : JoinRead(u)
  \/ \E j \in JoinIds : JoinCreate(j)
  \/ \E j \in JoinIds : JoinState(j)
  \/ \E u \in Users, sh \in Shuffles \cup NightCasts :
       Len(sh) = Cardinality(Present(players)) /\ StartGame(u, sh)

GraceSpec == LobbyInit /\ [][GraceNext]_vars

\* ------------------------------------------------------------ vote finalization
\* countVotes: the votes with a target, per target.  A target nobody voted for
\* is not a key of the record.
countVotes(votes) ==
  [t \in {a.target : a \in {b \in votes : b.target # NoOne}} |->
     Cardinality({a \in votes : a.target = t})]

\* The ALIVE players with a mayor_vote ability that has uses left.
mayorPlayers(pl, abs) ==
  {m \in Alive(pl) : \E a \in abs : /\ a.player = m /\ a.abilityType = "mayor_vote"
                                     /\ a.usesLeft > 0}

\* gameAction.findFirst of applyMayorVotes: the DAY_VOTE rows of the mayor
\* that have a target, of whatever day.
mayorVote(acts, mayor) ==
  {a \in acts : /\ a.performer = mayor /\ a.actionType = "DAY_VOTE"
                 /\ a.target # NoOne}

NoRow == [performer |-> NoOne, target |-> NoOne, actionType |-> "NONE",
          day |-> 0, phase |-> "NONE", metadata |-> NoMeta]

\* What findFirst can return for each mayor: one of the rows, which one nothing
\* fixes, or nothing when there is none.
MayorPicks(pl, abs, acts) ==
  {f \in [mayorPlayers(pl, abs) -> acts \cup {NoRow}] :
     \A m \in mayorPlayers(pl, abs) :
       IF mayorVote(acts, m) = {} THEN f[m] = NoRow ELSE f[m] \in mayorVote(acts, m)}

\* applyMayorVotes: one more vote for the target of the row found for each
\* mayor.
applyMayorVotes(baseVotes, found) ==
  LET extra(t) == Cardinality({m \in DOMAIN found : found[m].target = t})
      base(t) == IF t \in DOMAIN baseVotes THEN baseVotes[t] ELSE 0
  IN [t \in DOMAIN baseVotes \cup ({found[m].target : m \in DOMAIN found} \ {NoOne}) |->
        base(t) + extra(t)]

\* The targets with the most votes; none when nobody has a vote.
topTargets(votes) ==
  {t \in DOMAIN votes : \A u \in DOMAIN votes : votes[u] <= votes[t]}

\* What processVoteResults can pick: the only target with the most votes, or
\* what breakTie returns, any of the tied targets when there is a mayor.
Eliminated(pl, abs, votes) ==
  LET targets == topTargets(votes) IN
  IF Cardinality(targets) = 1 THEN targets
  ELSE IF Cardinality(targets) > 1 /\ mayorPlayers(pl, abs) # {} THEN targets
  ELSE {NoOne}

VoteProtection == [event |-> "vote_protection", player |-> NoOne, action |-> "none"]

checkVoteProtection(pl, p) ==
  /\ pl[p].role = "WOLF_RIDING_HOOD"
  /\ \E q \in Alive(pl) : pl[q].role = "BLACK_WOLF"

\* VotingService.eliminatePlayer with its handleDeathTriggers, which ends in
\* the engine's handleDeathTriggers.  st = [pl |-> players, ev |-> events].
RECURSIVE eliminatePlayer(_, _, _, _)
eliminatePlayer(st, p, reason, day) ==
  IF ~st.pl[p].present \/ st.pl[p].state # "ALIVE" THEN st
  ELSE
    LET dead == st.pl[p]
        lowest(S) == CHOOSE q \in S : \A r \in S : q <= r
        marked(s) ==
          [pl |-> [s.pl EXCEPT ![p].state = "DEAD", ![p].diedAt = TRUE],
           ev |-> Append(s.ev, [player |-> p, cause |-> reason, day |-> day])]
        lover(s) ==
          IF dead.linkedTo # NoOne /\ dead.linkedTo \in Alive(s.pl)
            THEN eliminatePlayer(s, dead.linkedTo, "died_of_grief", day)
            ELSE s
        linkedLover(s) ==
          IF \E q \in Alive(s.pl) : s.pl[q].linkedTo = p
            THEN eliminatePlayer(s, lowest({q \in Alive(s.pl) : s.pl[q].linkedTo = p}),
                                 "died_of_grief", day)
            ELSE s
        griefLover(s) ==
          IF dead.linkedTo # NoOne THEN killPlayer(s, dead.linkedTo, "grief", day)
          ELSE s
        griefLinked(s) ==
          IF \E q \in Alive(s.pl) : s.pl[q].linkedTo = p
            THEN killPlayer(s, lowest({q \in Alive(s.pl) : s.pl[q].linkedTo = p}),
                            "grief", day)
            ELSE s
        plunder(s) ==
          IF /\ Cardinality({q \in Present(s.pl) : s.pl[q].state = "DEAD"}) = 1
             /\ \E q \in Alive(s.pl) : s.pl[q].role = "PLUNDERER"
            THEN [s EXCEPT !.pl[lowest({q \in Alive(s.pl) :
                                          s.pl[q].role = "PLUNDERER"})].role = dead.role]
            ELSE s
    IN plunder(griefLinked(griefLover(linkedLover(lover(marked(st))))))

\* processVoteResults.  found is what applyMayorVotes finds for the mayors and
\* e what the tally with breakTie picks.  No player of these rooms holds a
\* mercenary_target ability, so checkMercenaryWinCondition returns early;
\* checkGameEndConditions ends the game when somebody has won.
ProcessVoteResults(found, e) ==
  LET votes == applyMayorVotes(countVotes(DayVotes(actions, room.dayNumber)), found)
      st == IF e # NoOne /\ ~checkVoteProtection(players, e)
              THEN eliminatePlayer([pl |-> players, ev |-> events], e, "voted_out",
                                   room.dayNumber)
              ELSE [pl |-> players, ev |-> events]
      winner == checkWinConditions(st.pl)
      pub == (IF e # NoOne /\ checkVoteProtection(players, e)
                THEN {VoteProtection} ELSE {})
             \cup (IF winner # NoTeam THEN {GameEnded} ELSE {})
  IN
  /\ found \in MayorPicks(players, abilities, actions)
  /\ e \in Eliminated(players, abilities, votes)
  /\ players' = st.pl
  /\ events' = st.ev
  /\ IF winner # NoTeam
       THEN /\ room' = [room EXCEPT !.state = "ENDED", !.phase = "GAME_END",
                                    !.winningTeam = winner]
            /\ phaseTimers' = NoTimer
            /\ redisTimers' = {}
       ELSE UNCHANGED <<room, phaseTimers, redisTimers>>
  /\ published' = pub
  /\ inbox' = Deliver(pub, sockets)
  /\ UNCHANGED <<actions, strayTimers, calls, dispatcher, counters>>
  /\ UNCHANGED <<abilities, submits, joins, cache, sockets>>
  /\ UNCHANGED graceTimers

\* A table of three on the second day, in DAY_VOTING: the votes of the day
\* are drawn, and so are the vote player 1 cast the day before and whether
\* player 1 is the mayor.
TallyPlayers == 1..3
TallyTargets == {NoOne} \cup TallyPlayers

DayVote(v, t, day) ==
  [performer |-> v, target |-> t, actionType |-> "DAY_VOTE", day |-> day,
   phase |-> "DAY_VOTING", metadata |-> NoMeta]

MayorRow(m) ==
  [player |-> m, abilityType |-> "mayor_vote", usesLeft |-> 999, maxUses |-> 999]

TallyInit ==
  /\ room = [state |-> "DAY", phase |-> "DAY_VOTING", dayNumber |-> 2,
             winningTeam |-> NoTeam, hostId |-> 1, phaseEndsAt |-> TRUE]
  /\ players = [u \in Users |->
                  IF u \in TallyPlayers
                    THEN [NoPlayer EXCEPT !.present = TRUE, !.position = u,
                                          !.role = IF u = 2 THEN "WEREWOLF"
                                                   ELSE "VILLAGER"]
                    ELSE NoPlayer]
  /\ \E today \in [TallyPlayers -> TallyTargets], before \in TallyTargets :
       actions = {DayVote(v, today[v], 2) : v \in TallyPlayers}
                 \cup (IF before = NoOne THEN {} ELSE {DayVote(1, before, 1)})
  /\ abilities \in {{}, {MayorRow(1)}}
  /\ events = <<>>
  /\ redisTimers = {PhaseTimer("DAY_VOTING")}
  /\ phaseTimers = [phase |-> "DAY_VOTING", due |-> FALSE]
  /\ strayTimers = {}
  /\ calls = [c \in CallIds |-> Idle]
  /\ dispatcher = FALSE
  /\ counters = [failures |-> 0, restarts |-> 0, leaves |-> 0, starts |-> 1,
                 transitions |-> 1]
  /\ submits = [i \in SubmitIds |-> NoSubmit]
  /\ published = {}
  /\ joins = [j \in JoinIds |-> NoJoin]
  /\ cache = NoSnapshot
  /\ sockets = TallyPlayers
  /\ inbox = {}
  /\ graceTimers = NoGrace

TallyNext ==
  \E found \in MayorPicks(players, abilities, actions), e \in TallyTargets :
    ProcessVoteResults(found, e)

TallySpec == TallyInit /\ [][TallyNext]_vars

\* ------------------------------------------------------------ riding hoods
\* Night rooms with the roles of the passive protections.  The casts and the
\* WITCH_POISON rows of the first night are drawn; the pack votes at night,
\* the players vote on the day after and processVoteResults closes the vote.
HoodCasts ==
  { <<"BLACK_WOLF", "WITCH", "RED_RIDING_HOOD", "HUNTER", "BLUE_RIDING_HOOD", "VILLAGER">>,
    <<"BLACK_WOLF", "WITCH", "WOLF_RIDING_HOOD", "HUNTER", "VILLAGER", "VILLAGER">> }

PoisonRow(performer, target) ==
  [performer |-> performer, target |-> target, actionType |-> "WITCH_POISON",
   day |-> 1, phase |-> "NIGHT_PHASE", metadata |-> NoMeta]

HoodRecorded ==
  { {}, {PoisonRow(2, 4)}, {PoisonRow(2, 6)}, {PoisonRow(2, 1)},
    {PoisonRow(2, 4), PoisonRow(5, 6)} }

HoodSubmissions ==
  { [performer |-> 1, action |-> "werewolf_vote", target |-> 3, metadata |-> NoMeta],
    [performer |-> 1, action |-> "werewolf_vote", target |-> 5, metadata |-> NoMeta] }

HoodVoteTargets == {3}

HoodInit ==
  /\ room = [state |-> "NIGHT", phase |-> "NIGHT_PHASE", dayNumber |-> 1,
             winningTeam |-> NoTeam, hostId |-> 1, phaseEndsAt |-> TRUE]
  /\ \E sh \in HoodCasts :
       /\ players = [u \in Users |-> [NoPlayer EXCEPT !.present = TRUE,
                                                      !.position = u,
                                                      !.role = sh[u]]]
       /\ abilities = UNION {initializeAbilities(u, sh[u]) : u \in Users}
  /\ actions \in HoodRecorded
  /\ events = <<>>
  /\ redisTimers = {PhaseTimer("NIGHT_PHASE")}
  /\ phaseTimers = [phase |-> "NIGHT_PHASE", due |-> FALSE]
  /\ strayTimers = {}
  /\ calls = [c \in CallIds |-> Idle]
  /\ dispatcher = FALSE
  /\ counters = [failures |-> 0, restarts |-> 0, leaves |-> 0, starts |-> 1,
                 transitions |-> 1]
  /\ submits = [i \in SubmitIds |-> NoSubmit]
  /\ published = {}
  /\ joins = [j \in JoinIds |-> NoJoin]
  /\ cache = NoSnapshot
  /\ sockets = Users
  /\ inbox = {}
  /\ graceTimers = NoGrace

HoodNext ==
  \/ \E s \in HoodSubmissions : NightActionBegin(s)
  \/ \E i \in SubmitIds : NightActionEnd(i)
  \/ \E v \in Users, t \in HoodVoteTargets : CastVote(v, t)
  \/ \E found \in MayorPicks(players, abilities, actions), e \in Users \cup {NoOne} :
       room.phase = "DAY_VOTING" /\ Quiet /\ ProcessVoteResults(found, e)
  \/ NightDeadline
  \/ LocalFire
  \/ \E c \in CallIds : CallBegin(c)
  \/ \E c \in CallIds, t \in Users \cup {NoOne} : CallBody(c, "ok", t)

HoodSpec == HoodInit /\ [][HoodNext]_vars

\* ------------------------------------------------------------ properties
Phases == {"LOBBY", "GAME_END"} \cup TimedPhases

\* The six pairs of the state-phase table: the graph of getStateForPhase.
PhaseStateTable == {<<p, getStateForPhase(p)>> : p \in Phases}

\* C1: once every room operation has returned, the pair (phase, state) of the
\* room is one of the six pairs of the state-phase table.
C1_PhaseStateConsistent ==
  Quiet => <<room.phase, room.state>> \in PhaseStateTable

\* C2: two transitionToPhase calls for the room never interleave: the call the
\* dispatcher makes and the call the local backup timer makes for the same
\* expiry are never both between reading the room and returning.
C2_TransitionsTotallyOrdered ==
  \A c, d \in CallIds :
    ~(/\ calls[c].pc = "begun" /\ calls[c].src = "redis"
      /\ calls[d].pc = "begun" /\ calls[d].src = "local"
      /\ calls[c].timerPhase = calls[d].timerPhase)

\* The normal cycle: the start into ROLE_ASSIGNMENT, then getNextPhase.
CycleEdges ==
  {<<"LOBBY", "ROLE_ASSIGNMENT">>} \cup {<<p, getNextPhase(p)>> : p \in TimedPhases}

\* C3: every change of the room's phase is an edge of the normal cycle or a
\* short-circuit to GAME_END, and no transition leads from NIGHT_PHASE to
\* NIGHT_PHASE.
C3_PhaseEdges ==
  [][ /\ room'.phase # room.phase =>
           \/ <<room.phase, room'.phase>> \in CycleEdges
           \/ room'.phase = "GAME_END"
      /\ \A c \in CallIds :
           (calls[c].pc = "begun" /\ calls'[c].pc = "idle" /\ room.phase = "NIGHT_PHASE"
              /\ counters' = counters /\ room'.phase # "GAME_END")
           => calls[c].next # "NIGHT_PHASE" ]_vars

\* C4: dayNumber never decreases, changes only in a step that puts the room in
\* NIGHT_PHASE, and grows by exactly 1 whenever the room comes into NIGHT_PHASE
\* from another phase.
C4_DayNumber ==
  [][ /\ room'.dayNumber >= room.dayNumber
      /\ room'.dayNumber # room.dayNumber => room'.phase = "NIGHT_PHASE"
      /\ (room.phase # "NIGHT_PHASE" /\ room'.phase = "NIGHT_PHASE")
           => room'.dayNumber = room.dayNumber + 1 ]_vars

\* C5: a timer scheduled for a phase makes a transitionToPhase call only when
\* the room is in that phase at the moment the timer fires.
C5_TimerFiresInItsPhase ==
  [][ \A c \in CallIds :
        (calls[c].pc = "idle" /\ calls'[c].pc = "start" /\ calls'[c].src # "start")
        => calls'[c].timerPhase = room.phase ]_vars

\* The expiry of the room's current phase is scheduled somewhere.
ExpiryPending ==
  \/ \E e \in redisTimers : e.kind = "phase" /\ e.phase = room.phase
  \/ phaseTimers.phase = room.phase
  \/ \E x \in strayTimers : x.phase = room.phase

\* C6: when the process restarts while the room is in a timed phase whose expiry
\* is in "phase_timers", the dispatcher runs after the restart, so that the
\* member is processed.
C6_RestartKeepsExpiry ==
  [][ (/\ counters'.restarts > counters.restarts
       /\ room.phase \in TimedPhases
       /\ \E e \in redisTimers : e.kind = "phase" /\ e.phase = room.phase)
      => (dispatcher' /\ \E e \in redisTimers' : e.kind = "phase" /\ e.phase = room'.phase)
    ]_vars

\* A call that a timer made returns in this step.
TimerCallReturns ==
  \E c \in CallIds : /\ calls[c].pc = "begun" /\ calls'[c].pc = "idle"
                      /\ calls[c].src \in {"local", "redis"}

\* C7: a transitionToPhase call that fails leaves the room, the players and the
\* recorded deaths as they were; stated for the calls that timers make.
C7_FailedTransitionChangesNothing ==
  [][ (counters'.failures > counters.failures /\ TimerCallReturns)
      => (room' = room /\ players' = players /\ events' = events) ]_vars

\* C8: after a timer-triggered transition has failed, a room that is in a timed
\* phase still has the expiry of that phase scheduled.
C8_FailedTransitionRetried ==
  [][ (/\ counters'.failures > counters.failures
       /\ TimerCallReturns
       /\ room'.phase \in TimedPhases)
      => ExpiryPending' ]_vars

VoteCount(acts, day, t) == Cardinality({a \in DayVotes(acts, day) : a.target = t})

\* The alive player who is not immune and holds strictly more votes than anyone.
TopVoted(p) ==
  /\ p \in Alive(players)
  /\ ~isPlayerProtected(players, p, "voted_out")
  /\ VoteCount(actions, room.dayNumber, p) > 0
  /\ \A q \in Users \ {p} :
       VoteCount(actions, room.dayNumber, q) < VoteCount(actions, room.dayNumber, p)

\* C9: when a timer-triggered transition that found the room in DAY_VOTING takes it to
\* NIGHT_PHASE, the alive, non-immune player who alone holds the most votes of
\* the day is DEAD.
C9_VoteFinalized ==
  [][ (/\ room.phase = "DAY_VOTING" /\ room'.phase = "NIGHT_PHASE"
       /\ \E c \in CallIds : /\ calls[c].pc = "begun" /\ calls'[c].pc = "idle"
                             /\ calls[c].src \in {"local", "redis"}
                             /\ calls[c].snapPhase = "DAY_VOTING")
      => \A p \in Users : TopVoted(p) => players'[p].state = "DEAD" ]_vars

\* C10: castVote never changes the room's phase, and the "all_voted" member it
\* schedules leaves "phase_timers" during DAY_VOTING only through a
\* transitionToPhase call; the dispatcher never just drops it.
C10_AllVotedEndsVoting ==
  [][ /\ actions' # actions /\ calls' = calls => room' = room
      /\ (AllVoted \in redisTimers /\ AllVoted \notin redisTimers'
            /\ room.phase = "DAY_VOTING")
         => calls' # calls ]_vars

\* ------------------------------------------------------------ deaths and lovers
Causes == {"werewolf_attack", "grief", "voted_out", "hunter_revenge"}

DeathEvents(p) == {i \in DOMAIN events : events[i].player = p}

C12_LoversDieTogether ==
  \A a, b \in Users :
    (players[a].present /\ players[a].linkedTo = b)
    => ~(players[a].state = "ALIVE" /\ players[b].state = "DEAD")
       /\ ~(players[a].state = "DEAD" /\ players[b].state = "ALIVE")

\* ------------------------------------------------------------ night resolution
\* The transitionToPhase call c that found the room in NIGHT_PHASE returns in
\* this step: the night has been resolved.
NightResolved(c) ==
  /\ calls[c].pc = "begun" /\ calls'[c].pc = "idle"
  /\ calls[c].snapPhase = "NIGHT_PHASE"
  /\ counters'.failures = counters.failures

\* The pending death p of the night is not carried out.
Spared(p) ==
  \/ p \in GuardProtected(actions, room.dayNumber)
  \/ isPlayerProtected(players, p, "werewolf_attack")

\* C13: when a night is resolved, the player with the pending death (the pack's
\* target) is DEAD afterwards unless guarded or passively immune, and is ALIVE
\* with player_saved sent when guarded or immune.
C13_CommitStep ==
  [][ \A c \in CallIds :
        (NightResolved(c) /\ WolfTop(actions, room.dayNumber) # {})
        => \E p \in WolfTop(actions, room.dayNumber) :
             IF Spared(p)
               THEN players'[p].state = "ALIVE" /\ PlayerSaved \in published'
               ELSE players'[p].state = "DEAD" ]_vars

\* The targets processAction can find for the pack in the room's current night.
PackChoices ==
  IF WolfTop(actions, room.dayNumber) = {} THEN {NoOne}
  ELSE WolfTop(actions, room.dayNumber)

Dead(pl) == {u \in Users : pl[u].present /\ pl[u].state = "DEAD"}
Roles(pl) == [u \in Users |-> pl[u].role]

\* C14: running the night resolver twice over the recorded actions of the night
\* leaves the same DEAD players and the same roles as running it once (the
\* resolver writes no ability counter).
C14_ResolverIdempotent ==
  room.phase = "NIGHT_PHASE" =>
    \A t1 \in PackChoices, t2 \in PackChoices :
      LET once == processNightActions([pl |-> players, ev |-> events, pub |-> {}],
                                      actions, room.dayNumber, t1)
          twice == processNightActions(once, actions, room.dayNumber, t2)
      IN Dead(twice.pl) = Dead(once.pl) /\ Roles(twice.pl) = Roles(once.pl)

\* C15: linkedTo is symmetric: if A is linked to B then B is linked to A.
C15_LinkSymmetric ==
  \A a \in Users :
    (players[a].present /\ players[a].linkedTo # NoOne)
    => players[players[a].linkedTo].linkedTo = a

\* ------------------------------------------------------------ abilities and actions
\* C16: usesLeft of every ability stays within 0..maxUses, however the
\* performNightAction calls of a player interleave.
C16_UsesWithinBounds ==
  \A a \in abilities : a.usesLeft >= 0 /\ a.usesLeft <= a.maxUses

\* The Witch, who holds a heal potion, has had a witch_heal call decided while
\* another of her calls was between its checks and its writes.
C16_Witness ==
  /\ \E a \in abilities : a.player = 2 /\ a.abilityType = "heal" /\ a.usesLeft = 1
  /\ \E i \in SubmitIds : submits[i].pc = "checked" /\ submits[i].performer = 2
  /\ \E e \in published : e.player = 2 /\ e.action = "witch_heal"

KeyOf(a) == <<a.performer, a.actionType, a.day, a.phase>>

UniqueKeys(acts) == \A a, b \in acts : KeyOf(a) = KeyOf(b) => a = b

\* The performNightAction call i returns from its writes in this step.
Recorded(i) == submits[i].pc = "checked" /\ submits'[i].pc = "idle"

\* The submission s is rejected in this step.
Rejected(s) == published' # published /\ published' = {Error(s)}

Potions == {"witch_heal", "witch_poison"}

\* C17: no two action rows share (performer, actionType, day, phase); a call
\* that records leaves its own target in the one row of its key; and a potion
\* submission, first or repeated, that an ALIVE Witch makes during the night
\* for an ALIVE target is accepted.
C17_ResubmissionOverwrites ==
  [][ /\ UniqueKeys(actions')
      /\ \A i \in SubmitIds :
           Recorded(i) =>
             \E a \in actions' :
               /\ KeyOf(a) = <<submits[i].performer, mapActionToType(submits[i].action),
                               submits[i].day, "NIGHT_PHASE">>
               /\ a.target = submits[i].target /\ a.metadata = submits[i].metadata
      /\ \A s \in Submissions :
           (/\ s.action \in Potions
            /\ room.phase = "NIGHT_PHASE"
            /\ s.performer \in Alive(players) /\ players[s.performer].role = "WITCH"
            /\ s.target \in Alive(players))
           => ~Rejected(s) ]_vars

\* ------------------------------------------------------------ win evaluation
\* C18: for every table of players with somebody ALIVE, the win evaluation
\* returns what the first matching rule of the ordered list gives: exactly two
\* alive who are linked to each other -> VILLAGERS; exactly one alive, a
\* WHITE_WOLF -> SOLO; werewolf team at least as large as the villager team and
\* nobody of the SOLO team alive -> WEREWOLVES; werewolf team empty and no
\* WHITE_WOLF alive -> VILLAGERS; otherwise no winner.
C18_WinRuleOrder ==
  LET alive == Alive(players)
      wolfTeam == {p \in alive : getTeamForRole(players[p].role) = "WEREWOLVES"}
      villageTeam == {p \in alive : getTeamForRole(players[p].role) = "VILLAGERS"}
      solo == {p \in alive : getTeamForRole(players[p].role) = "SOLO"}
      first ==
        IF /\ Cardinality(alive) = 2
           /\ \A a, b \in alive : a # b => players[a].linkedTo = b
          THEN "VILLAGERS"
        ELSE IF Cardinality(alive) = 1 /\ \A p \in alive : players[p].role = "WHITE_WOLF"
          THEN "SOLO"
        ELSE IF Cardinality(wolfTeam) >= Cardinality(villageTeam) /\ solo = {}
          THEN "WEREWOLVES"
        ELSE IF wolfTeam = {} /\ \A p \in alive : players[p].role # "WHITE_WOLF"
          THEN "VILLAGERS"
        ELSE NoTeam
  IN alive # {} => checkWinConditions(players) = first

\* ------------------------------------------------------------ draw
\* The transitionToPhase call c returns in this step without a store error.
Returned(c) ==
  /\ calls[c].pc = "begun" /\ calls'[c].pc = "idle"
  /\ counters'.failures = counters.failures

\* C19: a transition that finds no player ALIVE when it evaluates the win
\* conditions ends the game as a draw: the room is in GAME_END with no
\* winningTeam afterwards, not in the next phase.
C19_DrawEndsGame ==
  [][\A c \in CallIds :
       Returned(c) /\ Alive(players') = {}
         => room'.phase = "GAME_END" /\ room'.winningTeam = NoTeam]_vars

\* ------------------------------------------------------------ phaseEndsAt
\* C20: phaseEndsAt is set whenever the room is in a timed phase and is cleared
\* once the room has entered GAME_END.
C20_PhaseEndsAt ==
  /\ room.phase \in TimedPhases => room.phaseEndsAt
  /\ room.phase = "GAME_END" => ~room.phaseEndsAt

\* ------------------------------------------------------------ game start
\* C21: startGame takes effect only when the room is WAITING, the caller is the
\* host and at least minPlayers players are in the room.
C21_StartPrecondition ==
  [][\A u \in Users, sh \in Shuffles :
       StartGame(u, sh) => /\ room.state = "WAITING"
                           /\ room.hostId = u
                           /\ Cardinality(Present(players)) >= minPlayers]_vars

\* The transitionToPhase call c made by startGame throws in this step, so
\* startGame throws and the game:start handler reports the error.
StartFailed(c) ==
  /\ calls[c].src = "start"
  /\ calls[c].pc = "begun" /\ calls'[c].pc = "idle"
  /\ counters'.failures = counters.failures + 1

\* C22: a game:start that fails leaves the room WAITING in LOBBY.
C22_FailedStartKeepsLobby ==
  [][\A c \in CallIds :
       StartFailed(c) => room'.state = "WAITING" /\ room'.phase = "LOBBY"]_vars

\* ------------------------------------------------------------ lobby
\* C23: under any interleaving of joins and leaves no two players of the room
\* share a position, and each join that succeeds takes the smallest position of
\* 1..15 that no player holds at that moment.  (players is keyed by user, so a
\* user never has two rows: the store refuses the second.)
C23_JoinPositions ==
  [][/\ \A u, v \in Present(players') :
          u # v => players'[u].position # players'[v].position
     /\ \A u \in Users :
          ~players[u].present /\ players'[u].present
            => players'[u].position = getNextAvailablePosition(players)]_vars

\* A role field that tells something: it is there and it is not the value a
\* player row is created with, which every player has until roles are assigned.
Shown(r) == r # Hidden /\ r # NoPlayer.role

\* C24: a game:state snapshot a requester receives shows the role of a player
\* (in players[] or as myRole, which repeats the entry of the player it was
\* built for) only if that player is the requester's own; no player is ever
\* isRevealed.
C24_SnapshotHidesRoles ==
  \A d \in inbox :
    d.eventType = <<"game:state">>
      => /\ \A p \in Users : Shown(d.roles[p]) => p = d.to
         /\ d.myRoleOf # NoOne /\ Shown(d.roles[d.myRoleOf]) => d.myRoleOf = d.to

\* The player with the lowest position among the players us.
LowestPosition(pl, us) ==
  CHOOSE u \in us : \A v \in us : pl[u].position <= pl[v].position

\* C30: when the host leaves a WAITING room the remaining player with the
\* lowest position becomes host, or the room is CANCELLED when nobody remains;
\* after a leave that does not cancel the room the host is a player of the room.
C30_HostSuccession ==
  [][\A u \in Users :
       LeaveGame(u) /\ room.state = "WAITING"
         => LET remaining == Present(players) \ {u} IN
            /\ room.hostId = u /\ remaining # {}
                 => room'.hostId = LowestPosition(players, remaining)
            /\ room.hostId = u /\ remaining = {} => room'.state = "CANCELLED"
            /\ room'.state # "CANCELLED" => players'[room'.hostId].present]_vars

\* ------------------------------------------------------------ player events
\* C25: an event published for a player (its event name starts with the
\* player's id) reaches only the socket of that player.
C25_PlayerEventsPrivate ==
  \A d \in inbox :
    Len(d.eventType) = 3 /\ d.eventType[1] = "player" => d.to = d.eventType[2]

\* ------------------------------------------------------------ guard
\* The GUARD_PROTECT submission of slot i passes the checks in this step.
GuardAccepted(i) ==
  /\ submits[i].pc = "idle" /\ submits'[i].pc = "checked"
  /\ mapActionToType(submits'[i].action) = "GUARD_PROTECT"

\* C26: a GUARD_PROTECT submission passes the checks only if its target is
\* neither the guard nor the target of that guard's GUARD_PROTECT of the night
\* before, and the GUARD_PROTECT rows of a night are still on record when the
\* next night has begun.
C26_GuardChecks ==
  [][/\ \A i \in SubmitIds :
          GuardAccepted(i)
            => /\ submits'[i].target # submits'[i].performer
               /\ \A a \in lastProtection(actions, submits'[i].performer, room.dayNumber) :
                    a.target # submits'[i].target
     /\ \A a \in actions :
          /\ a.actionType = "GUARD_PROTECT" /\ a.day = room.dayNumber
          /\ room'.dayNumber = room.dayNumber + 1
          => a \in actions']_vars

\* ------------------------------------------------------------ special roles
\* A hunter:revenge call of h on t is answered with an error.
RevengeRefused(h, t) ==
  HunterRevenge(h, t) /\ published' = {Error(Revenge(h, t))}

\* C28: a hunter:revenge submission by a HUNTER who has been killed, naming an
\* ALIVE target, is accepted, and when its HUNTER_SHOOT is recorded the target
\* is DEAD with a death of cause hunter_revenge.
C28_HunterRevenge ==
  [][ /\ \A h \in Users, t \in RevengeTargets : ~RevengeRefused(h, t)
      /\ \A i \in SubmitIds :
           (Recorded(i) /\ submits[i].action = "HUNTER_SHOOT")
           => /\ players'[submits[i].target].state = "DEAD"
              /\ \E k \in 1..Len(events') :
                   /\ events'[k].player = submits[i].target
                   /\ events'[k].cause = "hunter_revenge" ]_vars

\* The seats that are dealt the PLUNDERER role.
PlundererSeats == {u \in Users : \E sh \in RoleCasts : sh[u] = "PLUNDERER"}

\* C29: in a room with an ALIVE Plunderer, the step of the first death gives
\* the Plunderer the role of the first player who died, and no step of a later
\* death changes the role of the Plunderer's seat.
C29_PlundererOnce ==
  [][ /\ (Dead(players) = {} /\ Dead(players') # {})
         => \A q \in Alive(players') :
              players[q].role = "PLUNDERER"
              => players'[q].role = players[events'[Len(events) + 1].player].role
      /\ (Dead(players) # {} /\ Dead(players') # Dead(players))
         => \A q \in PlundererSeats : players'[q].role = players[q].role ]_vars

\* The row of the convert ability in the store.
ConvertUses(abs) ==
  {a \in abs : a.abilityType = "convert"}

GraceRemoves(u) ==
  GraceFire(u) /\ players[u].present /\ ~players'[u].present

\* C31: the grace timer of a disconnect removes the player only when the room
\* is WAITING and the player has not come back since that disconnect: the
\* socket is not in the room again and the timer is the one of the player's
\* latest disconnect.
C31_GraceRemoval ==
  [][ \A u \in Users :
        GraceRemoves(u) => /\ room.state = "WAITING"
                           /\ u \notin sockets
                           /\ graceTimers[u] = 1 ]_vars

\* ------------------------------------------------------------ vote finalization
\* The votes of the day for t, with one more for each alive mayor whose vote of
\* the day is for t.
TallyOf(t) ==
  VoteCount(actions, room.dayNumber, t)
  + Cardinality({m \in mayorPlayers(players, abilities) :
                   \E a \in DayVotes(actions, room.dayNumber) :
                     a.performer = m /\ a.target = t})

TallyTop ==
  {t \in Users : TallyOf(t) > 0 /\ \A u \in Users : TallyOf(u) <= TallyOf(t)}

\* C32: vote finalization picks nobody when no target has a vote, the target
\* with the most votes (the day's votes, the mayors' counted twice) when there
\* is one, one of the tied targets when there is a tie and a mayor is alive, and
\* nobody on a tie without a mayor.
C32_VotedOut ==
  [][ \A found \in MayorPicks(players, abilities, actions), e \in TallyTargets :
        ProcessVoteResults(found, e)
        => IF Cardinality(TallyTop) = 1 THEN e \in TallyTop
           ELSE IF TallyTop # {} /\ mayorPlayers(players, abilities) # {}
             THEN e \in TallyTop
           ELSE e = NoOne ]_vars

\* ------------------------------------------------------------ pack choice
\* C33: the target of the pack, when a night is resolved, has the most
\* WEREWOLF_VOTEs of the night and, among the targets with that many, the
\* lowest position.
C33_PackChoice ==
  [][ \A c \in CallIds, t \in Users :
        (CallBody(c, "ok", t) /\ NightResolved(c))
        => /\ t \in WolfTop(actions, room.dayNumber)
           /\ \A u \in WolfTop(actions, room.dayNumber) :
                players[t].position <= players[u].position ]_vars

\* ------------------------------------------------------------ riding hoods
\* The three passive protections, and no other.
PassiveImmune(pl, p, cause) ==
  LET aliveWith(r) == \E q \in Alive(pl) : pl[q].role = r IN
  \/ pl[p].role = "RED_RIDING_HOOD" /\ cause = "werewolf_attack" /\ aliveWith("HUNTER")
  \/ pl[p].role = "BLUE_RIDING_HOOD" /\ cause = "werewolf_attack" /\ aliveWith("VILLAGER")
  \/ pl[p].role = "WOLF_RIDING_HOOD" /\ cause = "voted_out" /\ aliveWith("BLACK_WOLF")

OrdersOf(seq) ==
  LET n == Len(seq) IN
  {[k \in 1..n |-> seq[f[k]]] :
     f \in {g \in [1..n -> 1..n] : \A i, j \in 1..n : g[i] = g[j] => i = j}}

\* The orders in which the resolver can come to commit the pending deaths of a
\* night: the pack's target keeps the first place, the others come in the order
\* of their rows.
ResolverOrders(deaths, t) ==
  {o \in OrdersOf(deaths) :
     (deaths # <<>> /\ deaths[1].player = t) => o[1] = deaths[1]}

RoleActions(role) ==
  CASE role = "WEREWOLF" -> {"WEREWOLF_VOTE"}
    [] role = "BLACK_WOLF" -> {"WEREWOLF_VOTE", "BLACK_WOLF_CONVERT"}
    [] role = "WHITE_WOLF" -> {"WEREWOLF_VOTE", "WHITE_WOLF_DEVOUR"}
    [] role = "SEER" -> {"SEER_INVESTIGATE"}
    [] role = "WITCH" -> {"WITCH_HEAL", "WITCH_POISON"}
    [] role = "GUARD" -> {"GUARD_PROTECT"}
    [] role = "HUNTER" -> {"HUNTER_SHOOT"}
    [] role = "DICTATOR" -> {"DICTATOR_COUP"}
    [] role = "CUPID" -> {"CUPID_LINK"}
    [] role = "HEIR" -> {"HEIR_CHOOSE"}
    [] OTHER -> {}

\* C35: a performNightAction call that records its action belongs to an ALIVE
\* performer whose role has the action type, in a room that was in NIGHT_PHASE
\* when the call read it; a rejected call records no action and consumes no
\* ability use.
C35_RoleChecked ==
  [][ /\ \A i \in SubmitIds :
           Recorded(i) =>
             /\ submits[i].day = room.dayNumber => room.phase = "NIGHT_PHASE"
             /\ players[submits[i].performer].state = "ALIVE"
             /\ mapActionToType(submits[i].action)
                  \in RoleActions(players[submits[i].performer].role)
      /\ \A s \in Submissions :
           Rejected(s) => actions' = actions /\ abilities' = abilities ]_vars

\* ------------------------------------------------------------ grief cascade
\* A table of four in the night, with every linkedTo relation among the four:
\* no link, links to oneself, one-way links, chains and cycles.  killPlayer is
\* called for one player after the other, as the loop over the night's deaths
\* calls it, also for players who are dead by then.
GriefPlayers == 1..4

GriefInit ==
  /\ room = [state |-> "NIGHT", phase |-> "NIGHT_PHASE", dayNumber |-> 1,
             winningTeam |-> NoTeam, hostId |-> 1, phaseEndsAt |-> TRUE]
  /\ \E links \in [GriefPlayers -> {NoOne} \cup GriefPlayers] :
       players = [u \in Users |->
                    IF u \in GriefPlayers
                      THEN [NoPlayer EXCEPT !.present = TRUE, !.position = u,
                                            !.role = IF u = 1 THEN "WEREWOLF"
                                                     ELSE "VILLAGER",
                                            !.linkedTo = links[u]]
                      ELSE NoPlayer]
  /\ actions = {}
  /\ abilities = {}
  /\ events = <<>>
  /\ redisTimers = {PhaseTimer("NIGHT_PHASE")}
  /\ phaseTimers = [phase |-> "NIGHT_PHASE", due |-> FALSE]
  /\ strayTimers = {}
  /\ calls = [c \in CallIds |-> Idle]
  /\ dispatcher = FALSE
  /\ counters = [failures |-> 0, restarts |-> 0, leaves |-> 0, starts |-> 1,
                 transitions |-> 1]
  /\ submits = [i \in SubmitIds |-> NoSubmit]
  /\ published = {}
  /\ joins = [j \in JoinIds |-> NoJoin]
  /\ cache = NoSnapshot
  /\ sockets = GriefPlayers
  /\ inbox = {}
  /\ graceTimers = NoGrace

\* One call of killPlayer with all the calls it makes in turn.
KillCall(p, cause) ==
  LET st == killPlayer([pl |-> players, ev |-> events], p, cause, room.dayNumber) IN
  /\ players' = st.pl
  /\ events' = st.ev
  /\ UNCHANGED <<room, actions, redisTimers, phaseTimers, strayTimers, calls,
                 dispatcher, counters, abilities, submits, published, joins,
                 cache, sockets, inbox>>
  /\ UNCHANGED graceTimers

GriefNext == \E p \in GriefPlayers : KillCall(p, "werewolf_attack")

GriefSpec == GriefInit /\ [][GriefNext]_vars

DeadOf(pl) == {u \in Present(pl) : pl[u].state = "DEAD"}

\* The players of the death events from index n + 1 on.
DiedSince(ev, n) == {ev[i].player : i \in (n + 1)..Len(ev)}

\* C36: a kill comes to an end, and in doing so it kills each player at most
\* once: the death events it appends are as many as the players it turns from
\* ALIVE to DEAD, one for each, no player has two death events, the player the
\* kill was asked for is DEAD afterwards, and no player comes back to life;
\* for every linkedTo relation among the players.
C36_CascadeStops ==
  [][ \A p \in GriefPlayers :
        KillCall(p, "werewolf_attack") =>
          /\ DeadOf(players) \subseteq DeadOf(players')
          /\ p \in DeadOf(players')
          /\ DiedSince(events', Len(events)) = DeadOf(players') \ DeadOf(players)
          /\ Len(events') - Len(events)
               = Cardinality(DeadOf(players') \ DeadOf(players))
          /\ \A i, j \in 1..Len(events') :
               events'[i].player = events'[j].player => i = j ]_vars

\* A cycle of one-way links 1 -> 2 -> 3 -> 1 and a player linked to oneself:
\* the cycle has died in one kill, in the order of the links, and so has the
\* self-linked player in another.
C36_Witness ==
  /\ players[1].linkedTo = 2 /\ players[2].linkedTo = 3 /\ players[3].linkedTo = 1
  /\ players[4].linkedTo = 4
  /\ DeadOf(players) = GriefPlayers
  /\ Len(events) = 4
  /\ events[1].player = 1 /\ events[1].cause = "werewolf_attack"
  /\ events[2].player = 2 /\ events[2].cause = "grief"
  /\ events[3].player = 3 /\ events[3].cause = "grief"
  /\ events[4].player = 4

\* ------------------------------------------------------------ end of the game
\* endGame runs in this step: a transition or a vote finalization commits the
\* end of the game and publishes game_ended.
EndGameRuns ==
  /\ GameEnded \in published'
  /\ \/ \E c \in CallIds, t \in Users \cup {NoOne} : CallBody(c, "ok", t)
     \/ \E found \in MayorPicks(players, abilities, actions), e \in Users \cup {NoOne} :
          ProcessVoteResults(found, e)

\* C37: once the room is in GAME_END, no step changes its phase, state or
\* winningTeam, and endGame does not run for it again.
C37_GameEndFinal ==
  [][ room.phase = "GAME_END" =>
        /\ room'.phase = room.phase
        /\ room'.state = room.state
        /\ room'.winningTeam = room.winningTeam
        /\ ~EndGameRuns ]_vars

\* ------------------------------------------------------------ one transition per expiry
\* The phases that the timers still pending were scheduled for: the members of
\* "phase_timers", the timeout the map holds and the timeouts it lost track of.
TimerPhases ==
  {e.phase : e \in {m \in redisTimers : m.kind = "phase"}}
    \cup (IF phaseTimers = NoTimer THEN {} ELSE {phaseTimers.phase})
    \cup {x.phase : x \in strayTimers}

\* C38: a transition that a timer set off commits while the room is still in
\* the phase the timer was scheduled for, so that one expiry moves the room
\* once; and when a transition has committed, the timers still pending are
\* those of the phase the room is in now, and the map holds every local one.
C38_OneTransitionPerExpiry ==
  [][ \A c \in CallIds :
        Returned(c) =>
          /\ calls[c].src # "start" => calls[c].timerPhase = room.phase
          /\ TimerPhases' \subseteq {room'.phase}
          /\ strayTimers' = {} ]_vars

\* ------------------------------------------------------------ deaths of the disconnected
\* C39: when a night is resolved and the pack's target is DISCONNECTED, neither
\* guarded nor passively immune, the target is DEAD afterwards; and a DEAD
\* player stays DEAD whatever the connection does later.
C39_DisconnectedDie ==
  [][ /\ \A c \in CallIds, t \in Users :
           (/\ CallBody(c, "ok", t) /\ NightResolved(c)
            /\ players[t].state = "DISCONNECTED"
            /\ ~Spared(t))
           => players'[t].state = "DEAD"
      /\ \A u \in Users :
           (players[u].present /\ players[u].state = "DEAD")
           => players'[u].state = "DEAD" ]_vars

\* ------------------------------------------------------------ hunter's revenge
\* A started room of six in its first night whose HUNTER sits at seat 3, ALIVE
\* or already DEAD.  processHunterRevenge is called for any performer and any
\* target while the timers drive the room from phase to phase.
ShotTargets == {1, 4, 5}

HunterRevengeCompleted ==
  [event |-> "hunter_revenge_completed", player |-> NoOne, action |-> "none"]

\* The HUNTER_SHOOT row that processHunterRevenge creates.
ShotRow(h, t) ==
  [performer |-> h, target |-> t, actionType |-> "HUNTER_SHOOT",
   day |-> room.dayNumber, phase |-> room.phase, metadata |-> NoMeta]

\* processHunterRevenge: it throws for a performer who is not a HUNTER and for
\* a target who is not ALIVE; gameAction.create throws when the hunter has a
\* HUNTER_SHOOT row of this day and phase (the unique key of the rows); then
\* killPlayer and hunter_revenge_completed.  A call that throws changes nothing.
processHunterRevenge(h, t) ==
  LET st == killPlayer([pl |-> players, ev |-> events], t, "hunter_revenge",
                       room.dayNumber)
  IN
  /\ Quiet
  /\ players[h].present /\ players[h].role = "HUNTER"
  /\ t \in Alive(players)
  /\ \A a \in actions : KeyOf(a) # KeyOf(ShotRow(h, t))
  /\ actions' = actions \cup {ShotRow(h, t)}
  /\ players' = st.pl
  /\ events' = st.ev
  /\ published' = {HunterRevengeCompleted}
  /\ inbox' = Deliver({HunterRevengeCompleted}, sockets)
  /\ UNCHANGED <<room, redisTimers, phaseTimers, strayTimers, calls, dispatcher,
                 counters, abilities, submits, joins, cache, sockets>>
  /\ UNCHANGED graceTimers

ShotInit ==
  /\ room = [state |-> "NIGHT", phase |-> "NIGHT_PHASE", dayNumber |-> 1,
             winningTeam |-> NoTeam, hostId |-> 1, phaseEndsAt |-> TRUE]
  /\ \E hunterState \in {"ALIVE", "DEAD"} :
       players = [u \in Users |->
                    [NoPlayer EXCEPT !.present = TRUE, !.position = u,
                                     !.role = IF u <= 2 THEN "WEREWOLF"
                                              ELSE IF u = 3 THEN "HUNTER"
                                              ELSE "VILLAGER",
                                     !.state = IF u = 3 THEN hunterState ELSE "ALIVE",
                                     !.diedAt = (u = 3 /\ hunterState = "DEAD")]]
  /\ actions = {}
  /\ abilities = {}
  /\ events = <<>>
  /\ redisTimers = {PhaseTimer("NIGHT_PHASE")}
  /\ phaseTimers = [phase |-> "NIGHT_PHASE", due |-> FALSE]
  /\ strayTimers = {}
  /\ calls = [c \in CallIds |-> Idle]
  /\ dispatcher = FALSE
  /\ counters = [failures |-> 0, restarts |-> 0, leaves |-> 0, starts |-> 1,
                 transitions |-> 1]
  /\ submits = [i \in SubmitIds |-> NoSubmit]
  /\ published = {}
  /\ joins = [j \in JoinIds |-> NoJoin]
  /\ cache = NoSnapshot
  /\ sockets = Users
  /\ inbox = {}
  /\ graceTimers = NoGrace

ShotNext ==
  \/ \E h \in Users, t \in ShotTargets : processHunterRevenge(h, t)
  \/ NightDeadline
  \/ LocalFire
  \/ \E c \in CallIds : CallBegin(c)
  \/ \E c \in CallIds : CallBody(c, "ok", NoOne)

ShotSpec == ShotInit /\ [][ShotNext]_vars

\* The deaths of cause hunter_revenge so far.
RevengeDeaths(ev) == {k \in 1..Len(ev) : ev[k].cause = "hunter_revenge"}

\* The HUNTER_SHOOT rows of hunter h.
ShotsOf(acts, h) == {a \in acts : a.performer = h /\ a.actionType = "HUNTER_SHOOT"}

\* C40: a processHunterRevenge call kills its target only when the performer
\* is a HUNTER who is DEAD and has no HUNTER_SHOOT recorded yet, and the room's
\* one hunter accounts for at most one death of cause hunter_revenge.
C40_OneRevenge ==
  [][ /\ \A h \in Users, t \in ShotTargets :
           (processHunterRevenge(h, t) /\ players'[t].state = "DEAD")
           => /\ players[h].role = "HUNTER"
              /\ players[h].state = "DEAD"
              /\ ShotsOf(actions, h) = {}
      /\ Cardinality(RevengeDeaths(events')) <= 1 ]_vars
====
